---------------------------- MODULE Spec2Model ----------------------------
(***************************************************************************)
(* A model of the relay engine of telegram_n: the three monitor variants   *)
(* (main.py AdvancedTelegramMonitor, clean_monitor.py CleanFileMonitor,    *)
(* user_monitor.py TelegramChannelMonitor), the DatabaseManager of         *)
(* database.py and the FileNamingSystem of file_namer.py.                  *)
(*                                                                         *)
(* Text is modelled as a sequence of one-character strings, so that the    *)
(* suffix test and the filename generator are computed, not assumed.       *)
(***************************************************************************)
EXTENDS Integers, Sequences, FiniteSets, TLC

----------------------------------------------------------------------------
(* Bounds of the model (not program constants). *)

\* monitoring cycles run in one behaviour, summed over restarts
MaxCycles == 2
\* rate-limit (FloodWait) signals the transport raises in one behaviour
MaxFlood == 2
\* injected failures in one behaviour: storage errors, transport errors, crashes
MaxFaults == 1
\* calls of one caller in the DatabaseManager specifications
MaxCalls == 3

----------------------------------------------------------------------------
(* Text helpers. *)

Upper == <<"A","B","C","D","E","F","G","H","I","J","K","L","M",
           "N","O","P","Q","R","S","T","U","V","W","X","Y","Z">>

Lower == <<"a","b","c","d","e","f","g","h","i","j","k","l","m",
           "n","o","p","q","r","s","t","u","v","w","x","y","z">>

\* the element of a one-element set: {e(v) : v \in {x}} computes x once, as
\* an assignment to a local variable does
The(S) == CHOOSE r \in S : TRUE

\* str.lower() on one character
LowerChar(c) ==
    IF \E i \in 1..26 : Upper[i] = c
    THEN Lower[CHOOSE i \in 1..26 : Upper[i] = c]
    ELSE c

\* str.lower()
ToLower(s) == [i \in 1..Len(s) |-> LowerChar(s[i])]

\* str.endswith(suffix)
EndsWith(s, suffix) ==
    /\ Len(suffix) <= Len(s)
    /\ SubSeq(s, Len(s) - Len(suffix) + 1, Len(s)) = suffix

\* s[:n]
Take(s, n) == SubSeq(s, 1, IF n < Len(s) THEN n ELSE Len(s))

\* the index of the last "." of s, 0 when there is none (rsplit('.', 1))
LastDot(s) ==
    IF \E i \in 1..Len(s) : s[i] = "."
    THEN CHOOSE i \in 1..Len(s) : s[i] = "." /\ \A j \in (i+1)..Len(s) : s[j] # "."
    ELSE 0

RECURSIVE Filter(_, _)
\* the characters of s that are not in the set bad, in order
Filter(s, bad) ==
    IF s = <<>> THEN <<>>
    ELSE IF Head(s) \in bad THEN Filter(Tail(s), bad)
         ELSE <<Head(s)>> \o Filter(Tail(s), bad)

IsSpace(c) == c \in {" ", "\t", "\n"}

RECURSIVE Collapse(_)
\* re.sub(r'\s+', ' ', s): every run of whitespace becomes one space
Collapse(s) ==
    IF s = <<>> THEN <<>>
    ELSE IF IsSpace(Head(s))
         THEN IF Len(s) > 1 /\ IsSpace(s[2])
              THEN Collapse(Tail(s))
              ELSE <<" ">> \o Collapse(Tail(s))
         ELSE <<Head(s)>> \o Collapse(Tail(s))

RECURSIVE LStrip(_)
LStrip(s) == IF s # <<>> /\ IsSpace(Head(s)) THEN LStrip(Tail(s)) ELSE s

RECURSIVE RStrip(_)
RStrip(s) ==
    IF s # <<>> /\ IsSpace(s[Len(s)]) THEN RStrip(SubSeq(s, 1, Len(s) - 1)) ELSE s

\* str.strip()
Strip(s) == RStrip(LStrip(s))

DigitChars == <<"0","1","2","3","4","5","6","7","8","9">>

RECURSIVE Digits(_)
\* str(n) for n >= 0
Digits(n) ==
    IF n < 10 THEN <<DigitChars[n + 1]>>
    ELSE Digits(n \div 10) \o <<DigitChars[(n % 10) + 1]>>

RECURSIVE ZeroPad(_, _)
ZeroPad(s, width) == IF Len(s) >= width THEN s ELSE ZeroPad(<<"0">> \o s, width)

\* f"{n:04d}" for n >= 0
Format04d(n) == ZeroPad(Digits(n), 4)

----------------------------------------------------------------------------
(* config.py *)

TARGET_EXTENSION == <<".","n","p","v","t">>

FILE_PREFIX == <<"H","_">>

SHOW_SEQUENCE_NUMBER == TRUE

DESTINATION_CHANNEL == <<"@","d","s","t">>

SOURCE_CHANNELS == <<"chA", "chB">>

MESSAGES_TO_CHECK == 2

CHECK_INTERVAL == 2

----------------------------------------------------------------------------
(* file_namer.py *)

\* an argument that was not passed
None == {}

InvalidChars == {"<", ">", ":", "\"", "/", "\\", "|", "?", "*"}

MaxBaseLen == 50

ShortNameLen == 20

\* FileNamingSystem.destination_id: DESTINATION_CHANNEL.replace('@', '')
destination_id == Filter(DESTINATION_CHANNEL, {"@"})

\* the (name, ext) pair of filename.rsplit('.', 1), ext "" when there is no dot
SplitExt(filename) ==
    LET Split(f) ==
            IF LastDot(f) > 0
            THEN [name |-> SubSeq(f, 1, LastDot(f) - 1),
                  ext  |-> SubSeq(f, LastDot(f) + 1, Len(f))]
            ELSE [name |-> f, ext |-> <<>>]
    IN  The({Split(f) : f \in {filename}})

clean_filename(filename) ==
    LET Removed(name)   == Filter(name, InvalidChars)
        Shortened(name) == Take(name, MaxBaseLen)
        Cleaned(parts)  ==
            LET name == The({Shortened(c) : c \in
                                {Strip(b) : b \in
                                    {Collapse(a) : a \in {Removed(parts.name)}}}})
            IN  IF parts.ext # <<>> THEN name \o <<".">> \o parts.ext ELSE name
    IN  The({Cleaned(parts) : parts \in {SplitExt(filename)}})

\* FileNamingSystem(prefix, show_sequence); an argument is None or {its value}
FileNamingSystem(prefix, show_sequence) ==
    [prefix         |-> IF prefix \subseteq {<<>>} THEN FILE_PREFIX ELSE The(prefix),
     show_sequence  |-> IF show_sequence = None THEN SHOW_SEQUENCE_NUMBER
                        ELSE The(show_sequence),
     destination_id |-> destination_id]

\* a name built from the last four digits of the number only; C39 must not
\* hold of it
generate_new_filename_LastFourDigits(self, original_filename, sequence_number) ==
    LET base == IF self.show_sequence
                THEN self.prefix \o Format04d(sequence_number % 10000) \o <<"_">> \o
                     self.destination_id
                ELSE self.prefix \o self.destination_id
        Named(parts) ==
            LET named == IF Len(parts.name) > 0
                         THEN base \o <<"_">> \o Take(parts.name, ShortNameLen)
                         ELSE base
            IN  IF parts.ext # <<>> THEN named \o <<".">> \o parts.ext ELSE named
    IN  The({Named(parts) : parts \in {SplitExt(clean_filename(original_filename))}})

generate_new_filename(self, original_filename, sequence_number) ==
    LET base == IF self.show_sequence
                THEN self.prefix \o Format04d(sequence_number) \o <<"_">> \o self.destination_id
                ELSE self.prefix \o self.destination_id
        Named(parts) ==
            LET named == IF Len(parts.name) > 0
                         THEN base \o <<"_">> \o Take(parts.name, ShortNameLen)
                         ELSE base
            IN  IF parts.ext # <<>> THEN named \o <<".">> \o parts.ext ELSE named
    IN  The({Named(parts) : parts \in {SplitExt(clean_filename(original_filename))}})

----------------------------------------------------------------------------
(* The remote service: documents, messages and what each channel holds. *)

\* a Document without the date attribute (getattr's default is then used)
NoDate == -1

\* a document without a DocumentAttributeFilename
NoName == <<>>

\* datetime.now().timestamp() lies after every document's date
Epoch == 100

D1 == [id |-> 11, size |-> 100, date |-> 5,      file_name |-> <<"a",".","n","p","v","t">>]

D2 == [id |-> 12, size |-> 200, date |-> 6,      file_name |-> <<"B",":",".","N","P","V","T">>]

D3 == [id |-> 13, size |-> 300, date |-> NoDate, file_name |-> <<"d",".","n","p","v","t">>]

D4 == [id |-> 14, size |-> 400, date |-> 7,      file_name |-> <<"c",".","t","x","t">>]

D5 == [id |-> 15, size |-> 500, date |-> 8,      file_name |-> NoName]

NoDoc == [id |-> 0, size |-> 0, date |-> NoDate, file_name |-> NoName]

DocIds == {D1.id, D2.id, D3.id, D4.id, D5.id}

\* a message carrying a document
Doc(i, d) == [id |-> i, media |-> "document", doc |-> d]

\* a message without media
Text(i) == [id |-> i, media |-> "none", doc |-> NoDoc]

\* what the channels hold, newest first: one of these per behaviour
Feeds ==
    { [chA |-> <<Doc(1, D1), Doc(2, D4)>>, chB |-> <<Doc(1, D1), Doc(2, D2)>>],
      [chA |-> <<Text(1), Doc(2, D5)>>,    chB |-> <<Doc(1, D3), Doc(2, D1), Doc(3, D2)>>],
      [chA |-> <<Doc(1, D2), Doc(2, D2)>>, chB |-> <<>>] }

\* Channel.id of a source channel
ChannelId(ch) == IF ch = "chA" THEN 1 ELSE 2

Variants == {"advanced", "clean", "user"}

\* config.py: the settings validate_config requires
Required == {"api", "phone", "destination", "sources"}

SettingsCases == [Required -> BOOLEAN]

AllSet == [r \in Required |-> TRUE]

\* validate_config(): the list of errors; a non-empty list raises ValueError
validate_config(present) == {r \in Required : ~present[r]}

CounterNames == {"file_counter", "other"}

Callers == {1, 2}

----------------------------------------------------------------------------
VARIABLES
    variant,      \* which monitor runs: main.py, clean_monitor.py or user_monitor.py
    feed,         \* what each source channel holds
    settings,     \* which required settings of config.py are present
    namer,        \* self.namer, the FileNamingSystem
    db_conn,      \* the database connection is open (self.db.conn / self.db_conn)
    connected,    \* client.is_connected()
    released,     \* history: the releases cleanup() has attempted
    pc,           \* the monitor's position
    is_running,   \* self.is_running
    cycle_count,  \* start(): cycle_count
    chIdx,        \* monitoring_cycle(): index of the channel being checked
    msgs,         \* check_channel(): the messages still to process, current one first
    sent_count,   \* check_channel(): sent_count
    total_sent,   \* monitoring_cycle(): total_sent
    loc,          \* locals of process_message / send_file_with_new_name
    ledger,       \* processed_files (sent_messages) as the connection sees it
    counter,      \* counters as the connection sees it
    disk,         \* the committed content of the database file
    temp,         \* number of temporary download files that exist
    tick,         \* start(): the i of the wait loop
    clock,        \* wall clock in seconds
    ticks,        \* number of datetime.now() readings taken for a fingerprint
    ops,          \* history: operations performed for the current message
    published,    \* history: the publishes the destination accepted, in order
    waits,        \* history: backoff sleeps of the current relay
    result,       \* history: what process_message returned for the last message
    attempts,     \* history: publish calls of the current relay, with their outcome
    cyclesRun,    \* history: cycles started, over restarts
    floods,       \* history: rate-limit signals raised
    faults,       \* history: injected failures
    failures,     \* history: where each injected failure struck
    calls,        \* DatabaseManager callers: position and locals of each
    returned      \* history: values returned by get_next_sequence_number, per counter

vars == <<variant, feed, settings, namer, db_conn, connected, released, pc, is_running,
          cycle_count, chIdx, msgs, sent_count, total_sent, loc, ledger, counter, disk, temp, tick, clock, ticks, ops,
          published, attempts, waits, result, cyclesRun, floods, faults, failures,
          calls, returned>>

cfgVars == <<variant, feed, settings, namer>>

resVars == <<db_conn, connected, released>>

loopVars == <<is_running, cycle_count, chIdx, msgs, sent_count, total_sent, tick>>

dbVars == <<ledger, counter, disk>>

timeVars == <<clock, ticks>>

histVars == <<ops, published, attempts, waits, result>>

budgetVars == <<cyclesRun, floods, faults, failures>>

apiVars == <<calls, returned>>

----------------------------------------------------------------------------
(* database.py: the tables as values. A table maps its primary key to the  *)
(* row; an absent key is an absent row.                                    *)

EmptyTable == [k \in {} |-> 0]

HasRow(table, key) == key \in DOMAIN table

\* INSERT INTO: the caller must have checked that the key is absent
Insert(table, key, row) == table @@ (key :> row)

\* INSERT OR REPLACE INTO
InsertOrReplace(table, key, row) == (key :> row) @@ table

\* INSERT OR IGNORE INTO
InsertOrIgnore(table, key, row) == table @@ (key :> row)

\* init_counter: INSERT (name, 0) unless a row exists
init_counter(ctr, counter_name) ==
    IF HasRow(ctr, counter_name) THEN ctr ELSE Insert(ctr, counter_name, 0)

\* SELECT counter_value ...: result[0] if result else 0
select_counter(ctr, counter_name) ==
    IF HasRow(ctr, counter_name) THEN ctr[counter_name] ELSE 0

\* UPDATE counters SET counter_value = ? WHERE counter_name = ?
update_counter(ctr, counter_name, new_value) ==
    IF HasRow(ctr, counter_name) THEN [ctr EXCEPT ![counter_name] = new_value] ELSE ctr

\* a peek that answers 1 for a counter without row; C28 must not hold of it
get_current_sequence_number_FromOne(ctr, counter_name) ==
    IF HasRow(ctr, counter_name) THEN ctr[counter_name] ELSE 1

\* get_current_sequence_number
get_current_sequence_number(ctr, counter_name) == select_counter(ctr, counter_name)

\* is_file_processed / is_message_processed
is_file_processed(table, file_hash) == HasRow(table, file_hash)

\* a freshly created database file
EmptyDisk == [ledger |-> EmptyTable, counter |-> EmptyTable]

\* DatabaseManager.initialize on the committed file: CREATE TABLE IF NOT EXISTS
\* keeps the rows; init_counter('file_counter') then commits
InitializedCounter(ctr) == init_counter(ctr, "file_counter")

----------------------------------------------------------------------------
(* Fingerprints. *)

\* main.py get_file_hash: id, size and the date, datetime.now() when the
\* document has no date attribute (t is the number of earlier readings)
get_file_hash(document, t) ==
    <<document.id, document.size,
      IF document.date = NoDate THEN Epoch + t ELSE document.date>>

\* clean_monitor.py get_file_hash: id and size
clean_file_hash(document) == <<document.id, document.size>>

\* user_monitor.py: the key of sent_messages, UNIQUE(message_id, channel_id)
message_key(message, channel) == <<message.id, ChannelId(channel)>>

\* one more datetime.now() reading, taken only for a document without date
Reading(document) == IF document.date = NoDate THEN ticks + 1 ELSE ticks

\* a comparison that does not lower the filename; C29 must not hold of it
MatchesExtension_CaseSensitive(file_name) == EndsWith(file_name, TARGET_EXTENSION)

\* original_filename.lower().endswith(self.target_extension)
MatchesExtension(file_name) == EndsWith(ToLower(file_name), TARGET_EXTENSION)

----------------------------------------------------------------------------
(* Initial state: the monitor object constructed, start() not yet run. The *)
(* database file is new.                                                   *)

NoLoc == [message |-> [id |-> 0, media |-> "none", doc |-> NoDoc], channel |-> "",
          file_hash |-> <<>>, sequence_number |-> 0, current_value |-> 0,
          cleaned_name |-> <<>>,
          new_filename |-> <<>>, seconds |-> 0, success |-> FALSE]

\* the locals at the entry of process_message(message, channel)
Entry(m, ch) == [NoLoc EXCEPT !.message = m, !.channel = ch]

IdleCall == [pc |-> "idle", name |-> "file_counter", current_value |-> 0, done |-> 0]

Init ==
    /\ variant \in Variants
    /\ feed \in Feeds
    /\ settings \in SettingsCases
    /\ namer = FileNamingSystem(None, None)
    /\ db_conn = FALSE
    /\ connected = FALSE
    /\ released = {}
    /\ pc = "start"
    /\ is_running = TRUE
    /\ cycle_count = 0
    /\ chIdx = 1
    /\ msgs = <<>>
    /\ sent_count = 0
    /\ total_sent = 0
    /\ loc = NoLoc
    /\ ledger = EmptyTable
    /\ counter = EmptyTable
    /\ disk = EmptyDisk
    /\ temp = 0
    /\ tick = 0
    /\ clock = 0
    /\ ticks = 0
    /\ ops = <<>>
    /\ published = <<>>
    /\ attempts = <<>>
    /\ waits = <<>>
    /\ result = "none"
    /\ cyclesRun = 0
    /\ floods = 0
    /\ faults = 0
    /\ failures = {}
    /\ calls = [c \in Callers |-> IdleCall]
    /\ returned = [n \in CounterNames |-> <<>>]

\* the channel being checked and the message being processed
channel == SOURCE_CHANNELS[chIdx]

message == Head(msgs)

document == message.doc

\* an injected failure is still within the budget
MayFail == faults < MaxFaults

\* the failure is counted and remembered: where it struck, and in which
\* cycle, channel and message
FailAt(where) ==
    /\ faults' = faults + 1
    /\ failures' = failures \cup
            {[at |-> where, cycle |-> cyclesRun, channel |-> chIdx,
              message |-> IF msgs = <<>> THEN 0 ELSE Head(msgs).id]}

Fail == FailAt(pc)

\* the positions at which main.py calls the storage layer for a message
StorageOps == {"pm_lookup", "sf_select", "sf_update", "sf_commit", "sf_insert",
               "sf_inscommit", "sf_log", "sf_except", "pm_except"}

\* a storage call has failed while the current message was being processed
StorageDown ==
    /\ msgs # <<>>
    /\ \E f \in failures :
          /\ f.at \in StorageOps
          /\ f.cycle = cyclesRun
          /\ f.channel = chIdx
          /\ f.message = Head(msgs).id

\* log_activity in an exception handler fails: a new failure, or the storage
\* failure that brought the handler in is still there
FailAgain ==
    \/ MayFail /\ Fail
    \/ StorageDown /\ UNCHANGED <<faults, failures>>

\* conn.commit(): the connection's view becomes the file's content
Commit == disk' = [ledger |-> ledger', counter |-> counter']

----------------------------------------------------------------------------
(* start(): validation, the database, authentication, the destination,   *)
(* and the main loop (all variants).                                       *)

\* a start() that goes on after a failed validation; C27 must not hold of it
Validate_Lenient ==
    /\ pc = "start"
    /\ pc' = "init"
    /\ UNCHANGED <<cfgVars, resVars, loopVars, loc, dbVars, temp, timeVars, histVars,
                   budgetVars, apiVars>>

\* config.validate_config(): with a required setting missing it raises, and
\* start() re-raises after cleanup()
Validate ==
    /\ pc = "start"
    /\ pc' = IF validate_config(settings) = {} THEN "init" ELSE "cleanup"
    /\ UNCHANGED <<cfgVars, resVars, loopVars, loc, dbVars, temp, timeVars, histVars,
                   budgetVars, apiVars>>

\* db.initialize() / init_database(): connect, create the tables if absent,
\* and in main.py init_counter('file_counter'), then commit
Start ==
    /\ pc = "init"
    /\ db_conn' = TRUE
    /\ ledger' = disk.ledger
    /\ counter' = IF variant = "advanced" THEN InitializedCounter(disk.counter)
                  ELSE disk.counter
    /\ Commit
    /\ pc' = "auth"
    /\ UNCHANGED <<cfgVars, connected, released, loopVars, loc, temp, timeVars,
                   histVars, budgetVars, apiVars>>

\* authenticate(): client.connect(), then the authorization; an exception of
\* the sign-in is re-raised and ends start(). user_monitor.py has no
\* destination check
Authenticate ==
    /\ pc = "auth"
    /\ connected' = TRUE
    /\ \/ /\ pc' = IF variant = "user" THEN "loop" ELSE "access"
          /\ UNCHANGED <<faults, failures>>
       \/ /\ MayFail
          /\ Fail
          /\ pc' = "cleanup"
    /\ UNCHANGED <<cfgVars, db_conn, released, loopVars, loc, dbVars, temp, timeVars,
                   histVars, cyclesRun, floods, apiVars>>

\* a start() that ignores the result of check_destination_access(); C40 must
\* not hold of it
CheckDestination_Ignored ==
    /\ pc = "access"
    /\ \/ /\ pc' = "loop"
          /\ UNCHANGED <<faults, failures>>
       \/ /\ MayFail
          /\ Fail
          /\ pc' = "loop"
    /\ UNCHANGED <<cfgVars, resVars, loopVars, loc, dbVars, temp, timeVars, histVars,
                   cyclesRun, floods, apiVars>>

\* check_destination_access(): get_entity(destination); on any exception it
\* returns False and start() returns
CheckDestination ==
    /\ pc = "access"
    /\ \/ /\ pc' = "loop"
          /\ UNCHANGED <<faults, failures>>
       \/ /\ MayFail
          /\ Fail
          /\ pc' = "cleanup"
    /\ UNCHANGED <<cfgVars, resVars, loopVars, loc, dbVars, temp, timeVars, histVars,
                   cyclesRun, floods, apiVars>>

\* a loop that runs a single cycle and then leaves; C38 must not hold of it
LoopHead_OneShot ==
    /\ pc = "loop"
    /\ IF is_running /\ cycle_count = 0
       THEN /\ cyclesRun < MaxCycles
            /\ cycle_count' = cycle_count + 1
            /\ cyclesRun' = cyclesRun + 1
            /\ total_sent' = 0
            /\ chIdx' = 1
            /\ pc' = "channel"
       ELSE /\ pc' = "cleanup"
            /\ UNCHANGED <<cycle_count, cyclesRun, total_sent, chIdx>>
    /\ UNCHANGED <<cfgVars, resVars, is_running, msgs, sent_count, tick, loc, dbVars,
                   temp, timeVars, histVars, floods, faults, failures, apiVars>>

\* while self.is_running: cycle_count += 1; monitoring_cycle()
LoopHead ==
    /\ pc = "loop"
    /\ IF is_running
       THEN /\ cyclesRun < MaxCycles
            /\ cycle_count' = cycle_count + 1
            /\ cyclesRun' = cyclesRun + 1
            /\ total_sent' = 0
            /\ chIdx' = 1
            /\ pc' = "channel"
       ELSE /\ pc' = "cleanup"
            /\ UNCHANGED <<cycle_count, cyclesRun, total_sent, chIdx>>
    /\ UNCHANGED <<cfgVars, resVars, is_running, msgs, sent_count, tick, loc, dbVars,
                   temp, timeVars, histVars, floods, faults, failures, apiVars>>

\* e.seconds of a FloodWaitError
FloodSeconds == {1, 2}

\* a check_channel that walks the messages oldest first; C20 must not hold
\* of it
CheckChannel_OldestFirst ==
    /\ pc = "channel"
    /\ sent_count' = 0
    /\ \/ /\ LET newest == Take(feed[channel], MESSAGES_TO_CHECK)
             IN  msgs' = [k \in 1..Len(newest) |-> newest[Len(newest) + 1 - k]]
          /\ pc' = IF msgs' = <<>> THEN "channel_done" ELSE "message"
          /\ UNCHANGED <<faults, failures>>
       \/ /\ MayFail
          /\ Fail
          /\ msgs' = <<>>
          /\ pc' = "channel_done"
    /\ UNCHANGED <<cfgVars, resVars, is_running, cycle_count, chIdx, total_sent,
                   tick, loc,
                   dbVars, temp, timeVars, histVars, cyclesRun, floods, apiVars>>

\* a check_channel whose failure ends the cycle; C15 must not hold of it
CheckChannel_AbortsCycle ==
    /\ pc = "channel"
    /\ sent_count' = 0
    /\ \/ /\ msgs' = Take(feed[channel], MESSAGES_TO_CHECK)
          /\ pc' = IF msgs' = <<>> THEN "channel_done" ELSE "message"
          /\ UNCHANGED <<faults, failures>>
       \/ /\ MayFail
          /\ Fail
          /\ msgs' = <<>>
          /\ pc' = "cycle_done"
    /\ UNCHANGED <<cfgVars, resVars, is_running, cycle_count, chIdx, total_sent,
                   tick, loc,
                   dbVars, temp, timeVars, histVars, cyclesRun, floods, apiVars>>

\* a check_channel that sleeps e.seconds on a FloodWaitError of the scan and
\* scans the channel again; C37 must not hold of it
CheckChannel_WaitsOnFlood ==
    /\ pc = "channel"
    /\ sent_count' = 0
    /\ \/ /\ msgs' = Take(feed[channel], MESSAGES_TO_CHECK)
          /\ pc' = IF msgs' = <<>> THEN "channel_done" ELSE "message"
          /\ UNCHANGED <<clock, waits, floods, faults, failures>>
       \/ /\ floods < MaxFlood
          /\ floods' = floods + 1
          /\ \E n \in FloodSeconds :
                /\ clock' = clock + n
                /\ waits' = Append(waits, n)
          /\ msgs' = <<>>
          /\ pc' = "channel"
          /\ UNCHANGED <<faults, failures>>
       \/ /\ MayFail
          /\ Fail
          /\ msgs' = <<>>
          /\ pc' = "channel_done"
          /\ UNCHANGED <<clock, waits, floods>>
    /\ UNCHANGED <<cfgVars, resVars, is_running, cycle_count, chIdx, total_sent,
                   tick, loc, dbVars, temp, ticks, ops, published, attempts, result,
                   cyclesRun, apiVars>>

\* check_channel(): get_entity and get_messages(limit); a private channel, a
\* FloodWaitError or any other error returns 0 for the channel
CheckChannel ==
    /\ pc = "channel"
    /\ sent_count' = 0
    /\ \/ /\ msgs' = Take(feed[channel], MESSAGES_TO_CHECK)
          /\ pc' = IF msgs' = <<>> THEN "channel_done" ELSE "message"
          /\ UNCHANGED <<floods, faults, failures>>
       \/ /\ floods < MaxFlood
          /\ floods' = floods + 1
          /\ msgs' = <<>>
          /\ pc' = "channel_done"
          /\ UNCHANGED <<faults, failures>>
       \/ /\ MayFail
          /\ Fail
          /\ msgs' = <<>>
          /\ pc' = "channel_done"
          /\ UNCHANGED floods
    /\ UNCHANGED <<cfgVars, resVars, is_running, cycle_count, chIdx, total_sent,
                   tick, loc,
                   dbVars, temp, timeVars, histVars, cyclesRun, apiVars>>

\* the for loop of check_channel moves to the next message, or returns
NextMessage ==
    /\ msgs' = Tail(msgs)
    /\ pc' = IF Tail(msgs) = <<>> THEN "channel_done" ELSE "message"

\* process_message returned: `if await self.process_message(...): sent_count += 1`
\* and the sleep that follows
Return(value) ==
    /\ result' = IF value THEN "true" ELSE "false"
    /\ IF value
       THEN /\ sent_count' = sent_count + 1
            /\ pc' = "msg_delay"
            /\ UNCHANGED msgs
       ELSE /\ sent_count' = sent_count
            /\ NextMessage

\* asyncio.sleep between sends: 3 s in main.py, 2 s in clean_monitor.py,
\* 1 s in user_monitor.py
MessageDelay == CASE variant = "advanced" -> 3 [] variant = "clean" -> 2 [] OTHER -> 1

MsgDelay ==
    /\ pc = "msg_delay"
    /\ clock' = clock + MessageDelay
    /\ NextMessage
    /\ UNCHANGED <<cfgVars, resVars, is_running, cycle_count, chIdx, sent_count,
                   total_sent,
                   tick, loc, dbVars, temp, ticks, histVars, budgetVars, apiVars>>

\* asyncio.sleep between channels: 2 s in main.py and user_monitor.py, 3 s in
\* clean_monitor.py
ChannelDelay == IF variant = "clean" THEN 3 ELSE 2

\* a cycle that looks at is_running between channels and skips the remaining
\* ones once a stop was requested; C36 must not hold of it
ChannelDone_StopsEarly ==
    /\ pc = "channel_done"
    /\ total_sent' = total_sent + sent_count
    /\ IF channel # SOURCE_CHANNELS[Len(SOURCE_CHANNELS)] /\ is_running
       THEN /\ clock' = clock + ChannelDelay
            /\ chIdx' = chIdx + 1
            /\ pc' = "channel"
       ELSE /\ pc' = "cycle_done"
            /\ UNCHANGED <<clock, chIdx>>
    /\ UNCHANGED <<cfgVars, resVars, is_running, cycle_count, msgs, sent_count, tick,
                   loc, dbVars, temp, ticks, histVars, budgetVars, apiVars>>

\* monitoring_cycle(): total_sent += sent, the sleep unless this was the last
\* channel, then the next channel or the end of the cycle
ChannelDone ==
    /\ pc = "channel_done"
    /\ total_sent' = total_sent + sent_count
    /\ IF channel # SOURCE_CHANNELS[Len(SOURCE_CHANNELS)]
       THEN /\ clock' = clock + ChannelDelay
            /\ chIdx' = chIdx + 1
            /\ pc' = "channel"
       ELSE /\ pc' = "cycle_done"
            /\ UNCHANGED <<clock, chIdx>>
    /\ UNCHANGED <<cfgVars, resVars, is_running, cycle_count, msgs, sent_count, tick,
                   loc, dbVars, temp, ticks, histVars, budgetVars, apiVars>>

----------------------------------------------------------------------------
(* main.py: process_message and send_file_with_new_name.                   *)

\* the checks of process_message that precede the ledger, in their order:
\* media is a document, it has a filename attribute, the extension matches
FilterOps(m) ==
    IF m.media # "document" THEN <<"media_check">>
    ELSE IF m.doc.file_name = NoName THEN <<"media_check", "name_check">>
    ELSE <<"media_check", "name_check", "ext_check">>

\* a filter that lets a document without a filename attribute through; C4
\* must not hold of it
PassesFilter_NameOptional(m) ==
    /\ m.media = "document"
    /\ (m.doc.file_name = NoName \/ MatchesExtension(m.doc.file_name))

PassesFilter(m) ==
    /\ m.media = "document"
    /\ m.doc.file_name # NoName
    /\ MatchesExtension(m.doc.file_name)

\* the arguments of client.send_file in send_file_with_new_name
AdvArgs ==
    [entity    |-> DESTINATION_CHANNEL,
     file      |-> document.id,
     file_name |-> loc.new_filename,
     caption   |-> [file_name |-> loc.new_filename, number |-> loc.sequence_number,
                    size |-> document.size, time |-> clock]]

\* what the destination received
Accepted(args) ==
    [channel |-> channel, message |-> message.id, doc |-> document.id,
     size |-> document.size, args |-> args]

\* a row built from the counter value read before the increment; C8 must not
\* hold of it
AdvRow_StaleNumber ==
    [original_filename |-> document.file_name, new_filename |-> loc.new_filename,
     sequence_number |-> loc.current_value, channel_username |-> channel,
     file_size |-> document.size]

\* a row that stores the original name as the new one; C35 must not hold of it
AdvRow_OriginalName ==
    [original_filename |-> document.file_name, new_filename |-> document.file_name,
     sequence_number |-> loc.sequence_number, channel_username |-> channel,
     file_size |-> document.size]

\* the row save_processed_file writes
AdvRow ==
    [original_filename |-> document.file_name, new_filename |-> loc.new_filename,
     sequence_number |-> loc.sequence_number, channel_username |-> channel,
     file_size |-> document.size]

\* lines 232-255: the filter, then get_file_hash
AdvFilter ==
    /\ pc = "message"
    /\ variant = "advanced"
    /\ ops' = FilterOps(message)
    /\ attempts' = <<>>
    /\ waits' = <<>>
    /\ IF PassesFilter(message)
       THEN /\ loc' = [Entry(message, channel) EXCEPT
                        !.file_hash = get_file_hash(document, ticks)]
            /\ ticks' = Reading(document)
            /\ pc' = "pm_lookup"
            /\ result' = "none"
            /\ UNCHANGED <<msgs, sent_count>>
       ELSE /\ Return(FALSE)
            /\ loc' = Entry(message, channel)
            /\ UNCHANGED ticks
    /\ UNCHANGED <<cfgVars, resVars, is_running, cycle_count, chIdx, total_sent,
                   tick, dbVars, temp, clock, published, budgetVars, apiVars>>

\* line 256: is_file_processed(file_hash)
AdvLookup ==
    /\ pc = "pm_lookup"
    /\ variant = "advanced"
    /\ ops' = Append(ops, "ledger_lookup")
    /\ \/ /\ is_file_processed(ledger, loc.file_hash)
          /\ Return(FALSE)
          /\ UNCHANGED <<faults, failures>>
       \/ /\ ~is_file_processed(ledger, loc.file_hash)
          /\ pc' = "pm_download"
          /\ UNCHANGED <<msgs, sent_count, result, faults, failures>>
       \/ /\ MayFail
          /\ Fail
          /\ pc' = "pm_except"
          /\ UNCHANGED <<msgs, sent_count, result>>
    /\ UNCHANGED <<cfgVars, resVars, is_running, cycle_count, chIdx, total_sent,
                   tick, loc,
                   dbVars, temp, timeVars, published, attempts, waits, cyclesRun,
                   floods, apiVars>>

\* a download that takes a sequence number before it fails; C12 must not hold
\* of it
AdvDownload_Allocates ==
    /\ pc = "pm_download"
    /\ variant = "advanced"
    /\ ops' = Append(ops, "download")
    /\ \/ /\ temp' = temp + 1
          /\ pc' = "sf_select"
          /\ UNCHANGED <<msgs, sent_count, result, faults, failures, counter>>
       \/ /\ MayFail
          /\ Fail
          /\ Return(FALSE)
          /\ counter' = update_counter(counter, "file_counter",
                                       select_counter(counter, "file_counter") + 1)
          /\ UNCHANGED temp
    /\ UNCHANGED <<cfgVars, resVars, is_running, cycle_count, chIdx, total_sent,
                   tick, loc,
                   ledger, disk, timeVars, published, attempts, waits, cyclesRun,
                   floods, apiVars>>

\* download_file: the temporary file exists once download_media has returned;
\* an exception (a FloodWaitError too) or an empty result returns None
AdvDownload ==
    /\ pc = "pm_download"
    /\ variant = "advanced"
    /\ ops' = Append(ops, "download")
    /\ \/ /\ temp' = temp + 1
          /\ pc' = "sf_select"
          /\ UNCHANGED <<msgs, sent_count, result, floods, faults, failures>>
       \/ /\ floods < MaxFlood
          /\ floods' = floods + 1
          /\ Return(FALSE)
          /\ UNCHANGED <<temp, faults, failures>>
       \/ /\ MayFail
          /\ Fail
          /\ Return(FALSE)
          /\ UNCHANGED <<temp, floods>>
    /\ UNCHANGED <<cfgVars, resVars, is_running, cycle_count, chIdx, total_sent,
                   tick, loc,
                   dbVars, timeVars, published, attempts, waits, cyclesRun,
                   apiVars>>

\* get_next_sequence_number: SELECT counter_value
SfSelect ==
    /\ pc = "sf_select"
    /\ \/ /\ loc' = [loc EXCEPT !.current_value = select_counter(counter, "file_counter")]
          /\ pc' = "sf_update"
          /\ UNCHANGED <<faults, failures>>
       \/ /\ MayFail
          /\ Fail
          /\ pc' = "sf_except"
          /\ UNCHANGED loc
    /\ UNCHANGED <<cfgVars, resVars, loopVars, dbVars, temp, timeVars, histVars,
                   cyclesRun, floods, apiVars>>

\* an allocation whose UPDATE does not reach the counter; C34 must not hold of it
SfUpdate_NotWritten ==
    /\ pc = "sf_update"
    /\ \/ /\ loc' = [loc EXCEPT !.sequence_number = loc.current_value + 1]
          /\ ops' = Append(ops, "seq_alloc")
          /\ pc' = "sf_commit"
          /\ UNCHANGED <<counter, faults, failures>>
       \/ /\ MayFail
          /\ Fail
          /\ pc' = "sf_except"
          /\ UNCHANGED <<counter, loc, ops>>
    /\ UNCHANGED <<cfgVars, resVars, loopVars, ledger, disk, temp, timeVars, published,
                   attempts, waits, result, cyclesRun, floods, apiVars>>

\* get_next_sequence_number: new_value = current_value + 1; UPDATE counters
SfUpdate ==
    /\ pc = "sf_update"
    /\ \/ /\ counter' = update_counter(counter, "file_counter", loc.current_value + 1)
          /\ loc' = [loc EXCEPT !.sequence_number = loc.current_value + 1]
          /\ ops' = Append(ops, "seq_alloc")
          /\ pc' = "sf_commit"
          /\ UNCHANGED <<faults, failures>>
       \/ /\ MayFail
          /\ Fail
          /\ pc' = "sf_except"
          /\ UNCHANGED <<counter, loc, ops>>
    /\ UNCHANGED <<cfgVars, resVars, loopVars, ledger, disk, temp, timeVars, published,
                   attempts, waits, result, cyclesRun, floods, apiVars>>

\* get_next_sequence_number: commit and return; then generate_new_filename
SfCommit ==
    /\ pc = "sf_commit"
    /\ \/ /\ disk' = [ledger |-> ledger, counter |-> counter]
          /\ loc' = [loc EXCEPT !.new_filename =
                        generate_new_filename(namer, document.file_name, loc.sequence_number)]
          /\ pc' = "sf_publish"
          /\ UNCHANGED <<faults, failures>>
       \/ /\ MayFail
          /\ Fail
          /\ pc' = "sf_except"
          /\ UNCHANGED <<disk, loc>>
    /\ UNCHANGED <<cfgVars, resVars, loopVars, ledger, counter, temp, timeVars,
                   histVars, cyclesRun, floods, apiVars>>

\* client.send_file(...): accepted, rate-limited (FloodWaitError) or failed
SfPublish ==
    /\ pc = "sf_publish"
    /\ ops' = Append(ops, "publish")
    /\ \/ /\ attempts' = Append(attempts, [args |-> AdvArgs, outcome |-> "ok"])
          /\ published' = Append(published, Accepted(AdvArgs))
          /\ pc' = "sf_insert"
          /\ UNCHANGED <<loc, floods, faults, failures>>
       \/ /\ floods < MaxFlood
          /\ \E n \in FloodSeconds : loc' = [loc EXCEPT !.seconds = n]
          /\ floods' = floods + 1
          /\ attempts' = Append(attempts, [args |-> AdvArgs, outcome |-> "flood"])
          /\ pc' = "sf_sleep"
          /\ UNCHANGED <<published, faults, failures>>
       \/ /\ MayFail
          /\ Fail
          /\ attempts' = Append(attempts, [args |-> AdvArgs, outcome |-> "error"])
          /\ pc' = "sf_except"
          /\ UNCHANGED <<published, loc, floods>>
    /\ UNCHANGED <<cfgVars, resVars, loopVars, dbVars, temp, timeVars, waits, result,
                   cyclesRun, apiVars>>

\* a handler that sleeps and then gives up instead of calling the function
\* again; C10 must not hold of it
SfSleep_GivesUp ==
    /\ pc = "sf_sleep"
    /\ clock' = clock + loc.seconds
    /\ waits' = Append(waits, loc.seconds)
    /\ ops' = Append(ops, "flood_wait")
    /\ pc' = "sf_except"
    /\ UNCHANGED <<cfgVars, resVars, loopVars, loc, dbVars, temp, ticks, published,
                   attempts, result, budgetVars, apiVars>>

\* except FloodWaitError: asyncio.sleep(e.seconds), then the function calls
\* itself with the same parameters
SfSleep ==
    /\ pc = "sf_sleep"
    /\ clock' = clock + loc.seconds
    /\ waits' = Append(waits, loc.seconds)
    /\ ops' = Append(ops, "flood_wait")
    /\ pc' = "sf_select"
    /\ UNCHANGED <<cfgVars, resVars, loopVars, loc, dbVars, temp, ticks, published,
                   attempts, result, budgetVars, apiVars>>

\* a relay that gives up before save_processed_file once a stop was
\* requested; C22 must not hold of it
SfInsert_Interrupted ==
    IF is_running
    THEN
    /\ pc = "sf_insert"
    /\ ticks' = Reading(document)
    /\ LET file_hash == get_file_hash(document, ticks)
       IN  \/ /\ ~HasRow(ledger, file_hash)
              /\ ledger' = Insert(ledger, file_hash, AdvRow)
              /\ ops' = Append(ops, "ledger_write")
              /\ pc' = "sf_inscommit"
              /\ UNCHANGED <<faults, failures>>
           \/ /\ HasRow(ledger, file_hash)
              /\ pc' = "sf_except"
              /\ UNCHANGED <<ledger, ops, faults, failures>>
           \/ /\ MayFail
              /\ Fail
              /\ pc' = "sf_except"
              /\ UNCHANGED <<ledger, ops>>
    /\ UNCHANGED <<cfgVars, resVars, loopVars, loc, counter, disk, temp, clock,
                   published, attempts, waits, result, cyclesRun, floods, apiVars>>
    ELSE
    /\ pc = "sf_insert"
    /\ pc' = "loop"
    /\ UNCHANGED <<cfgVars, resVars, is_running, cycle_count, chIdx, msgs, sent_count,
                   total_sent, tick, loc, dbVars, temp, timeVars, histVars,
                   budgetVars, apiVars>>

\* lines 201-214: get_file_hash again, then save_processed_file's INSERT; a
\* row with that file_hash violates the primary key
SfInsert ==
    /\ pc = "sf_insert"
    /\ ticks' = Reading(document)
    /\ LET file_hash == get_file_hash(document, ticks)
       IN  \/ /\ ~HasRow(ledger, file_hash)
              /\ ledger' = Insert(ledger, file_hash, AdvRow)
              /\ ops' = Append(ops, "ledger_write")
              /\ pc' = "sf_inscommit"
              /\ UNCHANGED <<faults, failures>>
           \/ /\ HasRow(ledger, file_hash)
              /\ pc' = "sf_except"
              /\ UNCHANGED <<ledger, ops, faults, failures>>
           \/ /\ MayFail
              /\ Fail
              /\ pc' = "sf_except"
              /\ UNCHANGED <<ledger, ops>>
    /\ UNCHANGED <<cfgVars, resVars, loopVars, loc, counter, disk, temp, clock,
                   published, attempts, waits, result, cyclesRun, floods, apiVars>>

\* save_processed_file: commit
SfInsCommit ==
    /\ pc = "sf_inscommit"
    /\ \/ /\ disk' = [ledger |-> ledger, counter |-> counter]
          /\ pc' = "sf_log"
          /\ UNCHANGED <<faults, failures>>
       \/ /\ MayFail
          /\ Fail
          /\ pc' = "sf_except"
          /\ UNCHANGED disk
    /\ UNCHANGED <<cfgVars, resVars, loopVars, loc, ledger, counter, temp, timeVars,
                   histVars, cyclesRun, floods, apiVars>>

\* log_activity("FILE_SENT"): INSERT and commit; then return True
SfLog ==
    /\ pc = "sf_log"
    /\ \/ /\ disk' = [ledger |-> ledger, counter |-> counter]
          /\ ops' = Append(ops, "audit")
          /\ loc' = [loc EXCEPT !.success = TRUE]
          /\ pc' = "pm_cleanup"
          /\ UNCHANGED <<faults, failures>>
       \/ /\ MayFail
          /\ Fail
          /\ pc' = "sf_except"
          /\ UNCHANGED <<disk, ops, loc>>
    /\ UNCHANGED <<cfgVars, resVars, loopVars, ledger, counter, temp, timeVars,
                   published, attempts, waits, result, cyclesRun, floods, apiVars>>

\* a handler that reports success after an error; C11 must not hold of it
SfExcept_ReportsSuccess ==
    /\ pc = "sf_except"
    /\ disk' = [ledger |-> ledger, counter |-> counter]
    /\ loc' = [loc EXCEPT !.success = TRUE]
    /\ pc' = "pm_cleanup"
    /\ UNCHANGED <<cfgVars, resVars, loopVars, ledger, counter, temp, timeVars,
                   histVars, budgetVars, apiVars>>

\* except Exception: log_activity("SEND_ERROR") and return False; if the log
\* itself raises, the exception leaves send_file_with_new_name
SfExcept ==
    /\ pc = "sf_except"
    /\ \/ /\ disk' = [ledger |-> ledger, counter |-> counter]
          /\ loc' = [loc EXCEPT !.success = FALSE]
          /\ pc' = "pm_cleanup"
          /\ UNCHANGED <<faults, failures>>
       \/ /\ FailAgain
          /\ pc' = "pm_except"
          /\ UNCHANGED <<disk, loc>>
    /\ UNCHANGED <<cfgVars, resVars, loopVars, ledger, counter, temp, timeVars,
                   histVars, cyclesRun, floods, apiVars>>

\* lines 273-280: os.remove(file_path), return success
PmCleanup ==
    /\ pc = "pm_cleanup"
    /\ temp' = temp - 1
    /\ Return(loc.success)
    /\ UNCHANGED <<cfgVars, resVars, is_running, cycle_count, chIdx, total_sent,
                   tick, loc,
                   dbVars, timeVars, ops, published, attempts, waits, budgetVars,
                   apiVars>>

\* lines 282-285: log_activity("PROCESS_ERROR") and return False; if the log
\* itself raises, check_channel's handler returns 0 for the channel
PmExcept ==
    /\ pc = "pm_except"
    /\ \/ /\ disk' = [ledger |-> ledger, counter |-> counter]
          /\ Return(FALSE)
          /\ UNCHANGED <<faults, failures>>
       \/ /\ FailAgain
          /\ result' = "raised"
          /\ sent_count' = 0
          /\ msgs' = <<>>
          /\ pc' = "channel_done"
          /\ UNCHANGED disk
    /\ UNCHANGED <<cfgVars, resVars, is_running, cycle_count, chIdx, total_sent,
                   tick, loc,
                   ledger, counter, temp, timeVars, ops, published, attempts, waits,
                   cyclesRun, floods, apiVars>>

----------------------------------------------------------------------------
(* clean_monitor.py: process_message and send_clean_file.                  *)

\* the arguments of client.send_file in send_clean_file
CleanArgs ==
    [entity    |-> DESTINATION_CHANNEL,
     file      |-> document.id,
     file_name |-> document.file_name,
     caption   |-> [file_name |-> document.file_name, time |-> clock]]

\* the row mark_file_as_processed writes
CleanRow ==
    [original_message_id |-> message.id, channel_id |-> ChannelId(channel),
     file_name |-> document.file_name]

\* lines 202-226: the filter, then get_file_hash
CleanFilter ==
    /\ pc = "message"
    /\ variant = "clean"
    /\ ops' = FilterOps(message)
    /\ attempts' = <<>>
    /\ waits' = <<>>
    /\ IF PassesFilter(message)
       THEN /\ loc' = [Entry(message, channel) EXCEPT
                        !.file_hash = clean_file_hash(document)]
            /\ pc' = "pm_lookup"
            /\ result' = "none"
            /\ UNCHANGED <<msgs, sent_count>>
       ELSE /\ Return(FALSE)
            /\ loc' = Entry(message, channel)
    /\ UNCHANGED <<cfgVars, resVars, is_running, cycle_count, chIdx, total_sent,
                   tick, dbVars, temp, timeVars, published, budgetVars, apiVars>>

\* a lookup that never finds the fingerprint; C18 must not hold of it
CleanLookup_NeverFound ==
    /\ pc = "pm_lookup"
    /\ variant = "clean"
    /\ ops' = Append(ops, "ledger_lookup")
    /\ \/ /\ pc' = "pm_download"
          /\ UNCHANGED <<msgs, sent_count, result, faults, failures>>
       \/ /\ MayFail
          /\ Fail
          /\ Return(FALSE)
    /\ UNCHANGED <<cfgVars, resVars, is_running, cycle_count, chIdx, total_sent,
                   tick, loc,
                   dbVars, temp, timeVars, published, attempts, waits, cyclesRun,
                   floods, apiVars>>

\* line 227: is_file_processed(file_hash); an exception returns False
CleanLookup ==
    /\ pc = "pm_lookup"
    /\ variant = "clean"
    /\ ops' = Append(ops, "ledger_lookup")
    /\ \/ /\ is_file_processed(ledger, loc.file_hash)
          /\ Return(FALSE)
          /\ UNCHANGED <<faults, failures>>
       \/ /\ ~is_file_processed(ledger, loc.file_hash)
          /\ pc' = "pm_download"
          /\ UNCHANGED <<msgs, sent_count, result, faults, failures>>
       \/ /\ MayFail
          /\ Fail
          /\ Return(FALSE)
    /\ UNCHANGED <<cfgVars, resVars, is_running, cycle_count, chIdx, total_sent,
                   tick, loc,
                   dbVars, temp, timeVars, published, attempts, waits, cyclesRun,
                   floods, apiVars>>

\* download_file
CleanDownload ==
    /\ pc = "pm_download"
    /\ variant = "clean"
    /\ ops' = Append(ops, "download")
    /\ \/ /\ temp' = temp + 1
          /\ pc' = "cl_publish"
          /\ UNCHANGED <<msgs, sent_count, result, faults, failures>>
       \/ /\ MayFail
          /\ Fail
          /\ Return(FALSE)
          /\ UNCHANGED temp
    /\ UNCHANGED <<cfgVars, resVars, is_running, cycle_count, chIdx, total_sent,
                   tick, loc,
                   dbVars, timeVars, published, attempts, waits, cyclesRun, floods,
                   apiVars>>

\* send_clean_file: client.send_file(...); a failure returns False, and the
\* "cleanup" of lines 243-247 removes nothing
ClPublish ==
    /\ pc = "cl_publish"
    /\ ops' = Append(ops, "publish")
    /\ \/ /\ attempts' = Append(attempts, [args |-> CleanArgs, outcome |-> "ok"])
          /\ published' = Append(published, Accepted(CleanArgs))
          /\ loc' = [loc EXCEPT !.success = TRUE]
          /\ pc' = "cl_mark"
          /\ UNCHANGED <<msgs, sent_count, result, floods, faults, failures>>
       \/ /\ floods < MaxFlood
          /\ \E n \in FloodSeconds : loc' = [loc EXCEPT !.seconds = n]
          /\ floods' = floods + 1
          /\ attempts' = Append(attempts, [args |-> CleanArgs, outcome |-> "flood"])
          /\ pc' = "cl_sleep"
          /\ UNCHANGED <<published, msgs, sent_count, result, faults, failures>>
       \/ /\ MayFail
          /\ Fail
          /\ attempts' = Append(attempts, [args |-> CleanArgs, outcome |-> "error"])
          /\ Return(FALSE)
          /\ UNCHANGED <<published, loc, floods>>
    /\ UNCHANGED <<cfgVars, resVars, is_running, cycle_count, chIdx, total_sent,
                   tick, dbVars, temp, timeVars, waits, cyclesRun, apiVars>>

\* except FloodWaitError: asyncio.sleep(e.seconds), then send_clean_file again
ClSleep ==
    /\ pc = "cl_sleep"
    /\ clock' = clock + loc.seconds
    /\ waits' = Append(waits, loc.seconds)
    /\ ops' = Append(ops, "flood_wait")
    /\ pc' = "cl_publish"
    /\ UNCHANGED <<cfgVars, resVars, loopVars, loc, dbVars, temp, ticks, published,
                   attempts, result, budgetVars, apiVars>>

\* mark_file_as_processed: INSERT OR REPLACE
ClMark ==
    /\ pc = "cl_mark"
    /\ \/ /\ ledger' = InsertOrReplace(ledger, loc.file_hash, CleanRow)
          /\ ops' = Append(ops, "ledger_write")
          /\ pc' = "cl_commit"
          /\ UNCHANGED <<msgs, sent_count, result, faults, failures>>
       \/ /\ MayFail
          /\ Fail
          /\ Return(FALSE)
          /\ UNCHANGED <<ledger, ops>>
    /\ UNCHANGED <<cfgVars, resVars, is_running, cycle_count, chIdx, total_sent,
                   tick, loc, counter, disk, temp, timeVars, published, attempts, waits,
                   cyclesRun, floods, apiVars>>

\* mark_file_as_processed: commit; process_message returns True
ClCommit ==
    /\ pc = "cl_commit"
    /\ \/ /\ disk' = [ledger |-> ledger, counter |-> counter]
          /\ Return(TRUE)
          /\ UNCHANGED <<faults, failures>>
       \/ /\ MayFail
          /\ Fail
          /\ Return(FALSE)
          /\ UNCHANGED disk
    /\ UNCHANGED <<cfgVars, resVars, is_running, cycle_count, chIdx, total_sent,
                   tick, loc,
                   ledger, counter, temp, timeVars, ops, published, attempts, waits,
                   cyclesRun, floods, apiVars>>

----------------------------------------------------------------------------
(* user_monitor.py: process_message and forward_message.                   *)

\* the arguments of client.forward_messages
UserArgs ==
    [entity |-> DESTINATION_CHANNEL, messages |-> message.id,
     from_peer |-> ChannelId(channel)]

\* the row mark_message_as_sent writes
UserRow ==
    [channel_username |-> channel, file_name |-> document.file_name,
     file_size |-> document.size]

\* lines 213-215: the media check
UserFilter ==
    /\ pc = "message"
    /\ variant = "user"
    /\ ops' = <<"media_check">>
    /\ attempts' = <<>>
    /\ waits' = <<>>
    /\ loc' = [Entry(message, channel) EXCEPT
                !.file_hash = message_key(message, channel)]
    /\ IF message.media = "document"
       THEN /\ pc' = "us_lookup"
            /\ result' = "none"
            /\ UNCHANGED <<msgs, sent_count>>
       ELSE Return(FALSE)
    /\ UNCHANGED <<cfgVars, resVars, is_running, cycle_count, chIdx, total_sent,
                   tick, dbVars, temp, timeVars, published, budgetVars, apiVars>>

\* the checks that follow the lookup: extract_filename, then the extension
UserNameOps == IF document.file_name = NoName THEN <<"name_check">>
               ELSE <<"name_check", "ext_check">>

\* lines 217-232: is_message_processed(message.id, channel.id), then the
\* filename and the extension; an exception returns False
UserLookup ==
    /\ pc = "us_lookup"
    /\ \/ /\ is_file_processed(ledger, loc.file_hash)
          /\ ops' = Append(ops, "ledger_lookup")
          /\ Return(FALSE)
          /\ UNCHANGED <<faults, failures>>
       \/ /\ ~is_file_processed(ledger, loc.file_hash)
          /\ ops' = Append(ops, "ledger_lookup") \o UserNameOps
          /\ IF document.file_name # NoName /\ MatchesExtension(document.file_name)
             THEN /\ pc' = "us_forward"
                  /\ UNCHANGED <<msgs, sent_count, result>>
             ELSE Return(FALSE)
          /\ UNCHANGED <<faults, failures>>
       \/ /\ MayFail
          /\ Fail
          /\ ops' = Append(ops, "ledger_lookup")
          /\ Return(FALSE)
    /\ UNCHANGED <<cfgVars, resVars, is_running, cycle_count, chIdx, total_sent,
                   tick, loc,
                   dbVars, temp, timeVars, published, attempts, waits, cyclesRun,
                   floods, apiVars>>

\* forward_message: client.forward_messages(...); every exception but the
\* rate limit is logged and swallowed, and process_message returns True
UsForward ==
    /\ pc = "us_forward"
    /\ ops' = Append(ops, "publish")
    /\ \/ /\ attempts' = Append(attempts, [args |-> UserArgs, outcome |-> "ok"])
          /\ published' = Append(published, Accepted(UserArgs))
          /\ pc' = "us_mark"
          /\ UNCHANGED <<loc, msgs, sent_count, result, floods, faults, failures>>
       \/ /\ floods < MaxFlood
          /\ \E n \in FloodSeconds : loc' = [loc EXCEPT !.seconds = n]
          /\ floods' = floods + 1
          /\ attempts' = Append(attempts, [args |-> UserArgs, outcome |-> "flood"])
          /\ pc' = "us_sleep"
          /\ UNCHANGED <<published, msgs, sent_count, result, faults, failures>>
       \/ /\ MayFail
          /\ Fail
          /\ attempts' = Append(attempts, [args |-> UserArgs, outcome |-> "error"])
          /\ Return(TRUE)
          /\ UNCHANGED <<published, loc, floods>>
    /\ UNCHANGED <<cfgVars, resVars, is_running, cycle_count, chIdx, total_sent,
                   tick, dbVars, temp, timeVars, waits, cyclesRun, apiVars>>

\* except FloodWaitError: asyncio.sleep(e.seconds), then forward_message again
UsSleep ==
    /\ pc = "us_sleep"
    /\ clock' = clock + loc.seconds
    /\ waits' = Append(waits, loc.seconds)
    /\ ops' = Append(ops, "flood_wait")
    /\ pc' = "us_forward"
    /\ UNCHANGED <<cfgVars, resVars, loopVars, loc, dbVars, temp, ticks, published,
                   attempts, result, budgetVars, apiVars>>

\* mark_message_as_sent: INSERT OR IGNORE
UsMark ==
    /\ pc = "us_mark"
    /\ \/ /\ ledger' = InsertOrIgnore(ledger, loc.file_hash, UserRow)
          /\ ops' = Append(ops, "ledger_write")
          /\ pc' = "us_commit"
          /\ UNCHANGED <<msgs, sent_count, result, faults, failures>>
       \/ /\ MayFail
          /\ Fail
          /\ Return(TRUE)
          /\ UNCHANGED <<ledger, ops>>
    /\ UNCHANGED <<cfgVars, resVars, is_running, cycle_count, chIdx, total_sent,
                   tick, loc, counter, disk, temp, timeVars, published, attempts, waits,
                   cyclesRun, floods, apiVars>>

\* mark_message_as_sent: commit and log_activity("FILE_SENT"), then
\* log_activity("FORWARD_SUCCESS")
UsCommit ==
    /\ pc = "us_commit"
    /\ \/ /\ disk' = [ledger |-> ledger, counter |-> counter]
          /\ ops' = Append(ops, "audit")
          /\ UNCHANGED <<faults, failures>>
       \/ /\ MayFail
          /\ Fail
          /\ UNCHANGED <<disk, ops>>
    /\ Return(TRUE)
    /\ UNCHANGED <<cfgVars, resVars, is_running, cycle_count, chIdx, total_sent,
                   tick, loc,
                   ledger, counter, temp, timeVars, published, attempts, waits,
                   cyclesRun, floods, apiVars>>

----------------------------------------------------------------------------
(* The end of a cycle, the wait between cycles, shutdown.                  *)

\* after the cycle: `if self.is_running:` enters the wait loop
AfterCycle ==
    /\ pc' = IF is_running THEN "wait" ELSE "loop"
    /\ tick' = 0

\* monitoring_cycle(): log_activity("CYCLE_COMPLETE") in main.py and
\* user_monitor.py; clean_monitor.py logs nothing. In main.py an exception
\* reaches start(), which re-raises after cleanup; in user_monitor.py
\* monitor_cycle catches it and logs CYCLE_ERROR
CycleDone ==
    /\ pc = "cycle_done"
    /\ \/ /\ disk' = IF variant = "clean" THEN disk
                     ELSE [ledger |-> ledger, counter |-> counter]
          /\ AfterCycle
          /\ UNCHANGED <<faults, failures>>
       \/ /\ variant # "clean"
          /\ MayFail
          /\ Fail
          /\ pc' = IF variant = "advanced" THEN "cleanup" ELSE "cycle_error"
          /\ UNCHANGED <<disk, tick>>
    /\ UNCHANGED <<cfgVars, resVars, is_running, cycle_count, chIdx, msgs, sent_count,
                   total_sent, loc, ledger, counter, temp, timeVars, histVars,
                   cyclesRun, floods, apiVars>>

\* user_monitor.py monitor_cycle: log_activity("CYCLE_ERROR"); if it raises,
\* start_monitoring re-raises after cleanup
CycleError ==
    /\ pc = "cycle_error"
    /\ \/ /\ disk' = [ledger |-> ledger, counter |-> counter]
          /\ AfterCycle
          /\ UNCHANGED <<faults, failures>>
       \/ /\ MayFail
          /\ Fail
          /\ pc' = "cleanup"
          /\ UNCHANGED <<disk, tick>>
    /\ UNCHANGED <<cfgVars, resVars, is_running, cycle_count, chIdx, msgs, sent_count,
                   total_sent, loc, ledger, counter, temp, timeVars, histVars,
                   cyclesRun, floods, apiVars>>

\* for i in range(self.check_interval): if not self.is_running: break;
\* await asyncio.sleep(1)
WaitTick ==
    /\ pc = "wait"
    /\ IF tick < CHECK_INTERVAL /\ is_running
       THEN /\ pc' = "wait_sleep"
            /\ UNCHANGED tick
       ELSE /\ tick' = 0
            /\ pc' = "loop"
    /\ UNCHANGED <<cfgVars, resVars, is_running, cycle_count, chIdx, msgs, sent_count,
                   total_sent, loc, dbVars, temp, timeVars, histVars, budgetVars,
                   apiVars>>

\* a wait that does not look at is_running; C21 must not hold of it
WaitSleep_Uninterruptible ==
    /\ pc = "wait_sleep"
    /\ tick' = tick + 1
    /\ clock' = clock + 1
    /\ pc' = IF tick + 1 < CHECK_INTERVAL THEN "wait_sleep" ELSE "wait"
    /\ UNCHANGED <<cfgVars, resVars, is_running, cycle_count, chIdx, msgs, sent_count,
                   total_sent, loc, dbVars, temp, ticks, histVars, budgetVars, apiVars>>

\* await asyncio.sleep(1): a signal that arrives during the sleep sets
\* is_running, the sleep runs to its end
WaitSleep ==
    /\ pc = "wait_sleep"
    /\ tick' = tick + 1
    /\ clock' = clock + 1
    /\ pc' = "wait"
    /\ UNCHANGED <<cfgVars, resVars, is_running, cycle_count, chIdx, msgs, sent_count,
                   total_sent, loc, dbVars, temp, ticks, histVars, budgetVars, apiVars>>

\* cleanup(), first part: is_running = False, the connection is closed (what
\* it had not committed is rolled back). In main.py db.close() is inside
\* try/except: pass; in clean_monitor.py and user_monitor.py an exception of
\* close() leaves cleanup()
Cleanup ==
    /\ pc = "cleanup"
    /\ is_running' = FALSE
    /\ released' = IF db_conn THEN released \cup {"db"} ELSE released
    /\ \/ /\ db_conn' = FALSE
          /\ ledger' = disk.ledger
          /\ counter' = disk.counter
          /\ pc' = "cleanup_client"
          /\ UNCHANGED <<faults, failures>>
       \/ /\ db_conn
          /\ MayFail
          /\ Fail
          /\ pc' = IF variant = "advanced" THEN "cleanup_client" ELSE "stopped"
          /\ UNCHANGED <<db_conn, ledger, counter>>
    /\ UNCHANGED <<cfgVars, connected, cycle_count, chIdx, msgs, sent_count,
                   total_sent, tick, loc, disk, temp, timeVars, histVars, cyclesRun,
                   floods, apiVars>>

\* cleanup(), second part: if self.client.is_connected(): disconnect(); in
\* main.py inside try/except: pass
Disconnect ==
    /\ pc = "cleanup_client"
    /\ released' = IF connected THEN released \cup {"client"} ELSE released
    /\ \/ /\ connected' = FALSE
          /\ UNCHANGED <<faults, failures>>
       \/ /\ connected
          /\ MayFail
          /\ Fail
          /\ UNCHANGED connected
    /\ pc' = "stopped"
    /\ UNCHANGED <<cfgVars, db_conn, loopVars, loc, dbVars, temp, timeVars, histVars,
                   cyclesRun, floods, apiVars>>

\* signal_handler: SIGINT or SIGTERM sets is_running = False
Signal ==
    /\ pc \notin {"start", "cleanup", "stopped"}
    /\ is_running
    /\ is_running' = FALSE
    /\ UNCHANGED <<cfgVars, resVars, pc, cycle_count, chIdx, msgs, sent_count,
                   total_sent,
                   tick, loc, dbVars, temp, timeVars, histVars, budgetVars, apiVars>>

\* a kill after which the counters table is lost; C19 must not hold of it
Crash_LosesCounter ==
    /\ pc \notin {"start", "stopped"}
    /\ MayFail
    /\ FailAt("crash")
    /\ pc' = "start"
    /\ is_running' = TRUE
    /\ cycle_count' = 0
    /\ chIdx' = 1
    /\ msgs' = <<>>
    /\ sent_count' = 0
    /\ total_sent' = 0
    /\ tick' = 0
    /\ loc' = NoLoc
    /\ disk' = [ledger |-> disk.ledger, counter |-> EmptyTable]
    /\ ledger' = disk.ledger
    /\ counter' = EmptyTable
    /\ ops' = <<>>
    /\ attempts' = <<>>
    /\ waits' = <<>>
    /\ result' = "none"
    /\ db_conn' = FALSE
    /\ connected' = FALSE
    /\ released' = {}
    /\ UNCHANGED <<cfgVars, temp, timeVars, published, cyclesRun, floods, apiVars>>

\* the process is killed and started again: what the connection had not
\* committed is lost, the database file and the temporary files stay
Crash ==
    /\ pc \notin {"start", "stopped"}
    /\ MayFail
    /\ FailAt("crash")
    /\ pc' = "start"
    /\ is_running' = TRUE
    /\ cycle_count' = 0
    /\ chIdx' = 1
    /\ msgs' = <<>>
    /\ sent_count' = 0
    /\ total_sent' = 0
    /\ tick' = 0
    /\ loc' = NoLoc
    /\ ledger' = disk.ledger
    /\ counter' = disk.counter
    /\ ops' = <<>>
    /\ attempts' = <<>>
    /\ waits' = <<>>
    /\ result' = "none"
    /\ db_conn' = FALSE
    /\ connected' = FALSE
    /\ released' = {}
    /\ UNCHANGED <<cfgVars, disk, temp, timeVars, published, cyclesRun, floods,
                   apiVars>>

Next ==
    \/ Validate \/ Start \/ Authenticate \/ CheckDestination
    \/ LoopHead \/ CheckChannel \/ MsgDelay \/ ChannelDone
    \/ AdvFilter \/ AdvLookup \/ AdvDownload
    \/ SfSelect \/ SfUpdate \/ SfCommit \/ SfPublish \/ SfSleep
    \/ SfInsert \/ SfInsCommit \/ SfLog \/ SfExcept \/ PmCleanup \/ PmExcept
    \/ CleanFilter \/ CleanLookup \/ CleanDownload
    \/ ClPublish \/ ClSleep \/ ClMark \/ ClCommit
    \/ UserFilter \/ UserLookup \/ UsForward \/ UsSleep \/ UsMark \/ UsCommit
    \/ CycleDone \/ CycleError \/ WaitTick \/ WaitSleep
    \/ Cleanup \/ Disconnect \/ Signal \/ Crash

Spec == Init /\ [][Next]_vars

\* the steps of the send functions: the event loop resumes the coroutine
\* whenever its await (a sleep, a database call, a request) has completed
SendStep ==
    \/ SfSelect \/ SfUpdate \/ SfCommit \/ SfPublish \/ SfSleep \/ SfInsert
    \/ SfInsCommit \/ SfLog \/ SfExcept
    \/ ClPublish \/ ClSleep \/ ClMark \/ ClCommit

FairSpec == Spec /\ WF_vars(SendStep)

\* every step of the monitor itself (not the signal, not a kill): start() is
\* one coroutine, the event loop resumes it whenever the await it is
\* suspended at (a sleep, a database call, a request) has completed
ProgramStep ==
    \/ Validate \/ Start \/ Authenticate \/ CheckDestination
    \/ LoopHead \/ CheckChannel \/ MsgDelay \/ ChannelDone
    \/ AdvFilter \/ AdvLookup \/ AdvDownload
    \/ SfSelect \/ SfUpdate \/ SfCommit \/ SfPublish \/ SfSleep
    \/ SfInsert \/ SfInsCommit \/ SfLog \/ SfExcept \/ PmCleanup \/ PmExcept
    \/ CleanFilter \/ CleanLookup \/ CleanDownload
    \/ ClPublish \/ ClSleep \/ ClMark \/ ClCommit
    \/ UserFilter \/ UserLookup \/ UsForward \/ UsSleep \/ UsMark \/ UsCommit
    \/ CycleDone \/ CycleError \/ WaitTick \/ WaitSleep
    \/ Cleanup \/ Disconnect

FairRun == Spec /\ WF_vars(ProgramStep)

----------------------------------------------------------------------------
(* DatabaseManager used directly: callers of get_next_sequence_number, each *)
(* suspended at the awaits of the method.                                   *)

\* db.initialize(), after which the callers run
DbOpen ==
    /\ db_conn' = TRUE
    /\ pc = "start"
    /\ ledger' = disk.ledger
    /\ counter' = InitializedCounter(disk.counter)
    /\ Commit
    /\ pc' = "api"
    /\ UNCHANGED <<cfgVars, connected, released, loopVars, loc, temp, timeVars,
                   histVars, budgetVars, apiVars>>

\* a caller enters get_next_sequence_number(counter_name)
CallBegin(c, counter_name) ==
    /\ pc = "api"
    /\ calls[c].pc = "idle"
    /\ calls[c].done < MaxCalls
    /\ calls' = [calls EXCEPT ![c] = [@ EXCEPT !.pc = "select", !.name = counter_name]]
    /\ UNCHANGED <<cfgVars, resVars, pc, loopVars, loc, dbVars, temp, timeVars,
                   histVars, budgetVars, returned>>

\* SELECT counter_value: current_value = result[0] if result else 0
CallSelect(c) ==
    /\ pc = "api"
    /\ calls[c].pc = "select"
    /\ calls' = [calls EXCEPT ![c] = [@ EXCEPT !.pc = "update",
                    !.current_value = select_counter(counter, calls[c].name)]]
    /\ UNCHANGED <<cfgVars, resVars, pc, loopVars, loc, dbVars, temp, timeVars,
                   histVars, budgetVars, returned>>

\* new_value = current_value + 1; UPDATE counters
CallUpdate(c) ==
    /\ pc = "api"
    /\ calls[c].pc = "update"
    /\ counter' = update_counter(counter, calls[c].name, calls[c].current_value + 1)
    /\ calls' = [calls EXCEPT ![c] = [@ EXCEPT !.pc = "commit"]]
    /\ UNCHANGED <<cfgVars, resVars, pc, loopVars, loc, ledger, disk, temp, timeVars,
                   histVars, budgetVars, returned>>

\* commit; return new_value
CallCommit(c) ==
    /\ pc = "api"
    /\ calls[c].pc = "commit"
    /\ disk' = [ledger |-> ledger, counter |-> counter]
    /\ returned' = [returned EXCEPT ![calls[c].name] =
                        Append(@, calls[c].current_value + 1)]
    /\ calls' = [calls EXCEPT ![c] = [@ EXCEPT !.pc = "idle", !.done = @ + 1]]
    /\ UNCHANGED <<cfgVars, resVars, pc, loopVars, loc, ledger, counter, temp, timeVars,
                   histVars, budgetVars>>

\* get_current_sequence_number(counter_name), called between two calls of
\* get_next_sequence_number; ops keeps what it returned, and how many values
\* get_next_sequence_number had returned for the name before
PeekCall(counter_name) ==
    /\ pc = "api"
    /\ \A c \in Callers : calls[c].pc = "idle"
    /\ calls[1].done < MaxCalls
    /\ calls' = [calls EXCEPT ![1] = [@ EXCEPT !.done = @ + 1]]
    /\ ops' = Append(ops, [op |-> "peek", name |-> counter_name,
                           value |-> get_current_sequence_number(counter, counter_name),
                           before |-> Len(returned[counter_name])])
    /\ UNCHANGED <<cfgVars, resVars, pc, loopVars, loc, dbVars, temp, timeVars,
                   published, attempts, waits, result, budgetVars, returned>>

\* init_counter(counter_name), called directly
DbInitCounter(counter_name) ==
    /\ pc = "api"
    /\ \A c \in Callers : calls[c].pc = "idle"
    /\ ~HasRow(counter, counter_name)
    /\ counter' = init_counter(counter, counter_name)
    /\ disk' = [ledger |-> ledger, counter |-> counter']
    /\ UNCHANGED <<cfgVars, resVars, pc, loopVars, loc, ledger, temp, timeVars,
                   histVars, budgetVars, apiVars>>

\* close() and a new process: initialize() runs again on the same file
DbRestart ==
    /\ db_conn' = FALSE
    /\ pc = "api"
    /\ \A c \in Callers : calls[c].pc = "idle"
    /\ faults < MaxFaults
    /\ faults' = faults + 1
    /\ UNCHANGED failures
    /\ ledger' = disk.ledger
    /\ counter' = disk.counter
    /\ pc' = "start"
    /\ UNCHANGED <<cfgVars, connected, released, loopVars, loc, disk, temp, timeVars,
                   histVars, cyclesRun, floods, apiVars>>

InitDb ==
    /\ Init
    /\ settings = AllSet
    /\ variant = "advanced"
    /\ feed = [chA |-> <<Doc(1, D2), Doc(2, D2)>>, chB |-> <<>>]

\* one caller: the calls follow one another
NextDb ==
    \/ DbOpen
    \/ \E n \in CounterNames : CallBegin(1, n)
    \/ CallSelect(1)
    \/ CallUpdate(1)
    \/ CallCommit(1)
    \/ \E n \in CounterNames : PeekCall(n)
    \/ \E n \in CounterNames : DbInitCounter(n)
    \/ DbRestart

SpecDb == InitDb /\ [][NextDb]_vars

\* two callers on 'file_counter', interleaved at the awaits
NextConc ==
    \/ DbOpen
    \/ \E c \in Callers :
          \/ CallBegin(c, "file_counter")
          \/ CallSelect(c)
          \/ CallUpdate(c)
          \/ CallCommit(c)

SpecConc == InitDb /\ [][NextConc]_vars

----------------------------------------------------------------------------
(* The ledger used directly: save_processed_file / mark_file_as_processed   *)
(* and is_file_processed called by one caller, with close and restart.      *)
(* ops is the history of the calls that returned or raised.                 *)

ApiDocs == {D1, D2}

\* the fingerprint the variant computes for a document
FileHashOf(d) == IF variant = "advanced" THEN get_file_hash(d, 0) ELSE clean_file_hash(d)

\* the row the variant stores for document d seen as message n of channel ch
RowOf(d, ch) ==
    IF variant = "advanced"
    THEN [original_filename |-> d.file_name, new_filename |-> d.file_name,
          sequence_number |-> ChannelId(ch), channel_username |-> ch,
          file_size |-> d.size]
    ELSE [original_message_id |-> ChannelId(ch), channel_id |-> ChannelId(ch),
          file_name |-> d.file_name]

NoRow == <<>>

ApiCall(op, file_hash, row, outcome) ==
    [op |-> op, file_hash |-> file_hash, row |-> row, outcome |-> outcome]

ApiIdle == pc = "api" /\ calls[1].pc = "idle" /\ calls[1].done < MaxCalls

ApiDone == [calls EXCEPT ![1] = [@ EXCEPT !.pc = "idle", !.done = @ + 1]]

\* clean_monitor.py init_database: CREATE TABLE IF NOT EXISTS processed_files
CleanOpen ==
    /\ db_conn' = TRUE
    /\ pc = "start"
    /\ variant = "clean"
    /\ ledger' = disk.ledger
    /\ pc' = "api"
    /\ UNCHANGED <<cfgVars, connected, released, loopVars, loc, counter, disk, temp,
                   timeVars, histVars, budgetVars, apiVars>>

\* save_processed_file: INSERT INTO processed_files; file_hash is the PRIMARY
\* KEY, a second row with the same key raises sqlite3.IntegrityError
SaveExecute(d, ch) ==
    /\ ApiIdle
    /\ variant = "advanced"
    /\ LET file_hash == FileHashOf(d)
       IN  IF HasRow(ledger, file_hash)
           THEN /\ ops' = Append(ops, ApiCall("record", file_hash, RowOf(d, ch), "raised"))
                /\ calls' = ApiDone
                /\ UNCHANGED <<ledger, loc>>
           ELSE /\ ledger' = Insert(ledger, file_hash, RowOf(d, ch))
                /\ loc' = [NoLoc EXCEPT !.file_hash = file_hash]
                /\ calls' = [calls EXCEPT ![1] = [@ EXCEPT !.pc = "save_commit"]]
                /\ UNCHANGED ops
    /\ UNCHANGED <<cfgVars, resVars, pc, loopVars, counter, disk, temp, timeVars,
                   published, attempts, waits, result, budgetVars, returned>>

\* a save_processed_file that returns without commit; C17 must not hold of it
SaveCommit_NotDurable ==
    /\ pc = "api"
    /\ calls[1].pc = "save_commit"
    /\ ops' = Append(ops, ApiCall("record", loc.file_hash, ledger[loc.file_hash], "returned"))
    /\ calls' = ApiDone
    /\ UNCHANGED <<cfgVars, resVars, pc, loopVars, loc, dbVars, temp, timeVars,
                   published, attempts, waits, result, budgetVars, returned>>

\* save_processed_file: commit, return
SaveCommit ==
    /\ pc = "api"
    /\ calls[1].pc = "save_commit"
    /\ disk' = [ledger |-> ledger, counter |-> counter]
    /\ ops' = Append(ops, ApiCall("record", loc.file_hash, ledger[loc.file_hash], "returned"))
    /\ calls' = ApiDone
    /\ UNCHANGED <<cfgVars, resVars, pc, loopVars, loc, ledger, counter, temp, timeVars,
                   published, attempts, waits, result, budgetVars, returned>>

\* mark_file_as_processed: INSERT OR REPLACE INTO processed_files
MarkExecute(d, ch) ==
    /\ ApiIdle
    /\ variant = "clean"
    /\ ledger' = InsertOrReplace(ledger, FileHashOf(d), RowOf(d, ch))
    /\ loc' = [NoLoc EXCEPT !.file_hash = FileHashOf(d)]
    /\ calls' = [calls EXCEPT ![1] = [@ EXCEPT !.pc = "mark_commit"]]
    /\ UNCHANGED <<cfgVars, resVars, pc, loopVars, counter, disk, temp, timeVars,
                   histVars, budgetVars, returned>>

\* mark_file_as_processed: commit, return
MarkCommit ==
    /\ pc = "api"
    /\ calls[1].pc = "mark_commit"
    /\ disk' = [ledger |-> ledger, counter |-> counter]
    /\ ops' = Append(ops, ApiCall("record", loc.file_hash, ledger[loc.file_hash], "returned"))
    /\ calls' = ApiDone
    /\ UNCHANGED <<cfgVars, resVars, pc, loopVars, loc, ledger, counter, temp, timeVars,
                   published, attempts, waits, result, budgetVars, returned>>

\* is_file_processed(file_hash): SELECT 1 ... fetchone() is not None
HasCall(d) ==
    /\ ApiIdle
    /\ ops' = Append(ops, ApiCall("has", FileHashOf(d), NoRow,
                        IF is_file_processed(ledger, FileHashOf(d))
                        THEN "true" ELSE "false"))
    /\ calls' = ApiDone
    /\ UNCHANGED <<cfgVars, resVars, pc, loopVars, loc, dbVars, temp, timeVars,
                   published, attempts, waits, result, budgetVars, returned>>

\* the process ends (close(), or killed inside a call) and a new one starts on
\* the same file: what was not committed is rolled back
LedgerRestart ==
    /\ db_conn' = FALSE
    /\ pc = "api"
    /\ MayFail
    /\ FailAt(calls[1].pc)
    /\ ledger' = disk.ledger
    /\ counter' = disk.counter
    /\ loc' = NoLoc
    /\ calls' = [calls EXCEPT ![1] = [@ EXCEPT !.pc = "idle"]]
    /\ ops' = Append(ops, ApiCall("restart", <<>>, NoRow, "none"))
    /\ pc' = "start"
    /\ UNCHANGED <<cfgVars, connected, released, loopVars, disk, temp, timeVars,
                   published, attempts, waits, result, cyclesRun, floods, returned>>

InitLedger ==
    /\ Init
    /\ settings = AllSet
    /\ variant \in {"advanced", "clean"}
    /\ feed = [chA |-> <<Doc(1, D2), Doc(2, D2)>>, chB |-> <<>>]

NextLedger ==
    \/ variant = "advanced" /\ DbOpen
    \/ CleanOpen
    \/ \E d \in ApiDocs, n \in DOMAIN SOURCE_CHANNELS : SaveExecute(d, SOURCE_CHANNELS[n])
    \/ SaveCommit
    \/ \E d \in ApiDocs, n \in DOMAIN SOURCE_CHANNELS : MarkExecute(d, SOURCE_CHANNELS[n])
    \/ MarkCommit
    \/ \E d \in ApiDocs : HasCall(d)
    \/ LedgerRestart

SpecLedger == InitLedger /\ [][NextLedger]_vars

----------------------------------------------------------------------------
(* The claims. *)

\* positions of an operation in the history of the current message
Pos(op) == {i \in DOMAIN ops : ops[i] = op}

Before(a, b) == \A i \in Pos(b) : \E j \in Pos(a) : j < i

\* two accepted publishes carried the same file: same remote id, same size
SameFile(p, q) == p.doc = q.doc /\ p.size = q.size

\* C1: in AdvancedTelegramMonitor, whatever the cycles, transport failures,
\* storage failures and restarts, no source file is published to the
\* destination more than once.
C1_PublishedAtMostOnce ==
    variant = "advanced" =>
        \A i, j \in DOMAIN published :
            SameFile(published[i], published[j]) => i = j

\* C2: of two distinct messages that carry documents with the same remote id
\* and the same size, at most one is relayed: the other is skipped as a
\* duplicate, with no publish (stated for the runs in which nothing fails).
C2_DuplicateMessageSkipped ==
    faults = 0 =>
    \A i, j \in DOMAIN published :
        /\ SameFile(published[i], published[j])
        /\ <<published[i].channel, published[i].message>>
               # <<published[j].channel, published[j].message>>
        => FALSE

\* C3: in every variant the extension check precedes the ledger lookup, which
\* precedes every download and publish call; a filename that does not match
\* causes no lookup, and a recorded file causes no download.
C3_FilterLookupDownloadOrder ==
    /\ Before("ext_check", "ledger_lookup")
    /\ Before("ledger_lookup", "download")
    /\ Before("ledger_lookup", "publish")
    /\ Pos("ledger_lookup") # {} => MatchesExtension(loc.message.doc.file_name)
    /\ pc = "pm_download" => ~is_file_processed(ledger, loc.file_hash)

\* the operations that touch the ledger, the transport or the counter
Effects == {"ledger_lookup", "download", "seq_alloc", "publish", "flood_wait",
            "ledger_write", "audit"}

\* the positions inside process_message, past its filter
Pipeline == {"pm_lookup", "pm_download", "sf_select", "sf_update", "sf_commit",
             "sf_publish", "sf_sleep", "sf_insert", "sf_inscommit", "sf_log",
             "sf_except", "pm_cleanup", "pm_except", "cl_publish", "cl_sleep",
             "cl_mark", "cl_commit", "us_lookup", "us_forward", "us_sleep",
             "us_mark", "us_commit"}

\* the message being processed is a document without a filename attribute
NoNameMessage ==
    /\ loc.message.media = "document"
    /\ loc.message.doc.file_name = NoName

\* C4: in main.py and clean_monitor.py a document without a filename
\* attribute is filtered out first: process_message returns False and has not
\* read the ledger, downloaded, published, allocated a number or written the
\* ledger.
C4_NoFilenameFilteredOut ==
    (variant \in {"advanced", "clean"} /\ NoNameMessage) =>
        /\ result = "false"
        /\ \A i \in DOMAIN ops : ops[i] \notin Effects
        /\ pc \notin Pipeline

\* C4 witness: such a message has been processed by main.py
C4_Witness ==
    /\ variant = "advanced"
    /\ NoNameMessage
    /\ ops = <<"media_check", "name_check">>
    /\ result = "false"

\* C5: for every counter name, the values returned by successive
\* get_next_sequence_number calls are 1, 2, 3, ... in this order.
C5_SequenceIsOneTwoThree ==
    \A n \in CounterNames : \A i \in DOMAIN returned[n] : returned[n][i] = i

\* C6: two callers interleaved at the awaits of get_next_sequence_number never
\* receive the same value.
C6_ConcurrentValuesDistinct ==
    \A i, j \in DOMAIN returned["file_counter"] :
        returned["file_counter"][i] = returned["file_counter"][j] => i = j

\* C7: between relay attempts the sequence counter of main.py equals the
\* number of files that were relayed (stated for the runs in which the only
\* failures are rate limits).
C7_CounterEqualsRelayed ==
    (variant = "advanced" /\ faults = 0 /\ pc \notin Pipeline
        /\ pc \notin {"start", "api"}) =>
        get_current_sequence_number(counter, "file_counter") = Len(published)

C9_RetryWithIdenticalArguments ==
    /\ \A i \in DOMAIN attempts :
          (attempts[i].outcome = "flood" /\ i < Len(attempts)) =>
              attempts[i + 1].args = attempts[i].args
    /\ Len(waits) <= Len(attempts)

FloodCount == Cardinality({i \in DOMAIN attempts : attempts[i].outcome = "flood"})

LastAccepted == attempts # <<>> /\ attempts[Len(attempts)].outcome = "ok"

Sleeping == pc \in {"sf_sleep", "cl_sleep"}

Sending == pc \in {"sf_select", "sf_update", "sf_commit", "sf_publish", "sf_sleep",
                   "sf_insert", "sf_inscommit", "sf_log", "sf_except",
                   "cl_publish", "cl_sleep", "cl_mark", "cl_commit"}

\* the ledger rows a relay of main.py left for the numbers its attempts used
RowsWithNumber(n) == {h \in DOMAIN ledger : ledger[h].sequence_number = n}

\* C10, the state part: in main.py and clean_monitor.py every attempt but the
\* last was rate-limited and was followed by one wait; a relay that returned
\* success made k+1 attempts and k waits for its k rate limits and left one
\* ledger entry; when nothing else fails, every relay that reached the publish
\* call ends accepted and successful, however many times it was rate-limited.
C10_RetriedUntilAcceptedState ==
    variant \in {"advanced", "clean"} =>
        /\ \A i \in DOMAIN attempts : i < Len(attempts) => attempts[i].outcome = "flood"
        /\ Len(waits) = FloodCount - (IF Sleeping THEN 1 ELSE 0)
        /\ result = "true" =>
              /\ LastAccepted
              /\ Len(attempts) = FloodCount + 1
              /\ Len(waits) = FloodCount
              /\ IF variant = "advanced"
                 THEN /\ Cardinality(RowsWithNumber(loc.sequence_number)) = 1
                      /\ \A i \in DOMAIN attempts :
                            attempts[i].outcome = "flood" =>
                                RowsWithNumber(attempts[i].args.caption.number) = {}
                 ELSE HasRow(ledger, loc.file_hash)
        /\ (faults = 0 /\ attempts # <<>> /\ pc \notin Pipeline) =>
              /\ LastAccepted
              /\ result = "true"
              /\ Cardinality(DOMAIN ledger) = Len(published)

FailuresOfMessage ==
    {f \in failures : f.message = loc.message.id
                        /\ f.channel \in DOMAIN SOURCE_CHANNELS
                        /\ SOURCE_CHANNELS[f.channel] = loc.channel}

PublishOps == {"sf_publish", "cl_publish"}

\* the destination has accepted the document of the message held in loc
DocPublished ==
    \E i \in DOMAIN published :
        /\ published[i].doc = loc.message.doc.id
        /\ published[i].size = loc.message.doc.size

\* C11: in main.py and clean_monitor.py, when the publish of a message ends
\* with an error that is no rate limit, the relay writes no ledger row and no
\* audit record of success; if that error is the only failure that struck the
\* message, process_message returns False; and when the message is looked up
\* again later, its file not having been published meanwhile, the lookup
\* passes and the relay goes on to the download.
C11_FailedPublishLeftEligible ==
    variant \in {"advanced", "clean"} =>
        /\ (attempts # <<>> /\ attempts[Len(attempts)].outcome = "error") =>
              /\ \A i \in DOMAIN ops : ops[i] \notin {"ledger_write", "audit"}
              /\ ~HasRow(ledger, loc.file_hash)
              /\ (pc \notin Pipeline /\ FailuresOfMessage # {}
                    /\ \A f \in FailuresOfMessage : f.at \in PublishOps) =>
                    result = "false"
        /\ (/\ FailuresOfMessage # {}
            /\ \A f \in FailuresOfMessage : f.at \in PublishOps
            /\ ~DocPublished
            /\ ops # <<>> /\ ops[Len(ops)] = "ledger_lookup") =>
              pc = "pm_download"

\* C11 witness: main.py is at the publish call again for a message whose
\* publish failed in an earlier cycle
C11_Witness ==
    /\ variant = "advanced"
    /\ pc = "sf_publish"
    /\ \E f \in FailuresOfMessage : f.at = "sf_publish" /\ f.cycle < cyclesRun
    /\ \A f \in FailuresOfMessage : f.at = "sf_publish"

\* download_file of main.py returns None: process_message leaves the download
DownloadFails ==
    /\ variant = "advanced"
    /\ pc = "pm_download"
    /\ pc' \notin {"pm_download", "sf_select", "start"}

\* C12: when the download of main.py fails, that step makes no publish call,
\* leaves the ledger and the counter (in the connection and in the file) as
\* they were, and process_message returns False with no ledger row for the
\* file; when the message is looked up again later, its file not having been
\* published meanwhile, the lookup passes.
C12_FailedDownloadChangesNothing ==
    /\ [][DownloadFails =>
            /\ UNCHANGED <<ledger, counter, disk, published, attempts>>
            /\ result' = "false"
            /\ ~HasRow(ledger', loc.file_hash)]_vars
    /\ [](variant = "advanced" =>
            ((/\ FailuresOfMessage # {}
              /\ \A f \in FailuresOfMessage : f.at = "pm_download"
              /\ ~DocPublished
              /\ ops # <<>> /\ ops[Len(ops)] = "ledger_lookup") =>
                pc = "pm_download"))

\* C12 witness: main.py is at the download again for a message whose download
\* failed in an earlier cycle and whose file was not published
C12_Witness ==
    /\ variant = "advanced"
    /\ pc = "pm_download"
    /\ \E f \in FailuresOfMessage : f.at = "pm_download" /\ f.cycle < cyclesRun
    /\ ~DocPublished

\* the messages check_channel got for the current channel
Scanned == Take(feed[channel], MESSAGES_TO_CHECK)

\* get_entity or get_messages failed for the current channel in this cycle
ChannelFailed ==
    \E f \in failures : f.at = "channel" /\ f.cycle = cyclesRun /\ f.channel = chIdx

\* C13: in main.py, whatever storage call raised while a message was being
\* relayed, check_channel still goes through every message it got: when it
\* returns, the last message processed is the last message of the channel.
C13_StorageFailureOnlyFailsTheFile ==
    (/\ variant = "advanced"
     /\ pc = "channel_done"
     /\ Scanned # <<>>
     /\ ~ChannelFailed) =>
        /\ loc.channel = channel
        /\ loc.message = Scanned[Len(Scanned)]

\* C14: an error raised while a cycle runs does not end the process: the
\* main loop is left for cleanup() only after a stop was requested.
C14_CycleErrorKeepsProcess ==
    (pc = "cleanup" /\ cycle_count > 0) => ~is_running

\* get_entity or get_messages raises for the current channel
ChannelRaises == pc = "channel" /\ failures' # failures /\ pc' # "start"

\* the cycle goes from one channel to the next one of the list
NextChannel ==
    IF chIdx < Len(SOURCE_CHANNELS)
    THEN pc' = "channel" /\ chIdx' = chIdx + 1
    ELSE pc' = "cycle_done" /\ chIdx' = chIdx

\* C15: a source channel that is private or cannot be found is skipped with a
\* count of 0 and the cycle goes on: check_channel returns 0 for it, after
\* every channel (failed or not) the cycle moves to the next channel of the
\* list, and the cycle ends only after the last channel of the list.
C15_InaccessibleChannelSkipped ==
    /\ [][ChannelRaises =>
            /\ pc' = "channel_done"
            /\ sent_count' = 0
            /\ UNCHANGED <<chIdx, total_sent, is_running>>]_vars
    /\ [][(pc = "channel_done" /\ pc' \notin {"channel_done", "start"}) =>
            /\ NextChannel
            /\ total_sent' = total_sent + sent_count]_vars
    /\ [](pc = "cycle_done" => chIdx = Len(SOURCE_CHANNELS))

\* C15 witness: the second channel is being processed in the cycle in which
\* the first channel could not be read
C15_Witness ==
    /\ pc = "message"
    /\ chIdx = 2
    /\ \E f \in failures : f.at = "channel" /\ f.channel = 1 /\ f.cycle = cyclesRun

\* the calls of the history that recorded fingerprint F and returned
Recorded(F) ==
    {i \in DOMAIN ops : /\ ops[i].op = "record" /\ ops[i].file_hash = F
                        /\ ops[i].outcome = "returned"}

\* the first successful recording of F
FirstRecorded(F) == CHOOSE i \in Recorded(F) : \A j \in Recorded(F) : i <= j

\* C16: recording is idempotent: a record call for a fingerprint that was
\* already recorded does not raise, and afterwards the ledger has the
\* fingerprint with the content of the first successful recording.
C16_RecordIsIdempotent ==
    \A j \in DOMAIN ops :
        (ops[j].op = "record" /\ \E i \in Recorded(ops[j].file_hash) : i < j) =>
            /\ ops[j].outcome = "returned"
            /\ is_file_processed(ledger, ops[j].file_hash)
            /\ ledger[ops[j].file_hash] = ops[FirstRecorded(ops[j].file_hash)].row

\* C17: once a record call has returned for fingerprint F, the committed
\* ledger holds F, the connection sees it, and every later has(F) answers
\* true, in the same process and after the process was restarted and the
\* database opened again.
C17_RecordedStaysVisible ==
    \A i \in DOMAIN ops :
        (ops[i].op = "record" /\ ops[i].outcome = "returned") =>
            /\ HasRow(disk.ledger, ops[i].file_hash)
            /\ is_file_processed(ledger, ops[i].file_hash)
            /\ \A j \in DOMAIN ops :
                  (j > i /\ ops[j].op = "has" /\ ops[j].file_hash = ops[i].file_hash)
                      => ops[j].outcome = "true"

\* C17 witness: a fingerprint was recorded, the process was restarted and the
\* database opened again, and has(F) was asked
C17_Witness ==
    /\ pc = "api"
    /\ Len(ops) = 3
    /\ ops[1].op = "record" /\ ops[1].outcome = "returned"
    /\ ops[2].op = "restart"
    /\ ops[3].op = "has" /\ ops[3].file_hash = ops[1].file_hash

\* the rows of a table are still there, with the same content
RowsKept(old, new) == \A F \in DOMAIN old : HasRow(new, F) /\ new[F] = old[F]

\* the process ends: close() or a kill rolls back what was not committed
ProcessEnds == pc' \in {"start", "cleanup_client", "stopped"}

\* C18: the ledger is append-only. A committed row is never changed or
\* removed; a row of the open connection is never changed, and is removed
\* only when the process ends before its commit; a row is added only in the
\* relay of the current message, after its publish call was accepted, and a
\* message adds at most one row.
C18_LedgerAppendOnly ==
    /\ [][RowsKept(disk.ledger, disk.ledger')]_vars
    /\ [][~ProcessEnds => RowsKept(ledger, ledger')]_vars
    /\ [][DOMAIN ledger' \ DOMAIN ledger # {} =>
            /\ Cardinality(DOMAIN ledger' \ DOMAIN ledger) = 1
            /\ LastAccepted
            /\ published # <<>>
            /\ published[Len(published)].message = message.id
            /\ published[Len(published)].channel = channel]_vars
    /\ [](Cardinality(Pos("ledger_write")) <= 1)

\* C18 witness: main.py has committed a second ledger row next to the first
C18_Witness ==
    /\ variant = "advanced"
    /\ pc = "sf_log"
    /\ HasRow(disk.ledger, loc.file_hash)
    /\ Cardinality(DOMAIN disk.ledger) = 2

\* the steps of get_next_sequence_number, of save_processed_file and those
\* between the two
AllocationSteps == {"sf_select", "sf_update", "sf_commit", "sf_publish", "sf_sleep",
                    "sf_insert", "sf_inscommit"}

\* the counter value a restarted process finds in the file
Persisted(file) == select_counter(file.counter, "file_counter")

\* the counter value before the allocation the relay is in
BeforeAllocation ==
    IF pc = "sf_select" THEN select_counter(counter, "file_counter")
    ELSE IF pc \in {"sf_update", "sf_commit"} THEN loc.current_value
    ELSE loc.sequence_number - 1

\* the process is killed inside the allocation or the recording, nothing else
\* having failed
CrashInAllocation ==
    /\ variant = "advanced"
    /\ pc \in AllocationSteps
    /\ failures = {}
    /\ pc' = "start"

\* C19: when the process is killed inside get_next_sequence_number, inside
\* save_processed_file or between the two, the counter the restarted process
\* finds is the value before the allocation or that value plus one, and the
\* connection restarts from the committed file; the committed counter is
\* never below a sequence number of a committed row, and no two committed
\* rows (one per fingerprint) carry the same sequence number.
C19_CrashKeepsCounterAndLedger ==
    /\ [][CrashInAllocation =>
            /\ Persisted(disk') \in {BeforeAllocation, BeforeAllocation + 1}
            /\ ledger' = disk'.ledger
            /\ counter' = disk'.counter
            /\ RowsKept(disk.ledger, disk'.ledger)]_vars
    /\ [](variant = "advanced" =>
            /\ \A F \in DOMAIN disk.ledger :
                  disk.ledger[F].sequence_number <= Persisted(disk)
            /\ \A F, G \in DOMAIN disk.ledger :
                  disk.ledger[F].sequence_number = disk.ledger[G].sequence_number
                      => F = G)

\* C19 witness: main.py was killed between the allocation and its use: the
\* restarted process finds a counter above every recorded sequence number
C19_Witness ==
    /\ variant = "advanced"
    /\ pc = "start"
    /\ floods = 0
    /\ \E f \in failures : f.at = "crash"
    /\ disk.ledger # EmptyTable
    /\ \A F \in DOMAIN disk.ledger : disk.ledger[F].sequence_number < Persisted(disk)

\* the place of an accepted publish in the processing order of a cycle:
\* the channel's place in the list, then the message's place, newest first
ChannelIndex(ch) == CHOOSE n \in DOMAIN SOURCE_CHANNELS : SOURCE_CHANNELS[n] = ch

MessageIndex(ch, id) == CHOOSE k \in DOMAIN feed[ch] : feed[ch][k].id = id

ProcessedBefore(p, q) ==
    \/ ChannelIndex(p.channel) < ChannelIndex(q.channel)
    \/ /\ p.channel = q.channel
       /\ MessageIndex(p.channel, p.message) < MessageIndex(q.channel, q.message)

\* C20: when every relay of main.py succeeds at its first attempt, the i-th
\* file relayed carries sequence number i, every ledger row carries the number
\* of the publish it records, the ledger has one row per relay (the last one
\* missing only until save_processed_file has run), and within the first
\* cycle the relays follow the processing order: channel-list order, newest
\* first within a channel.
C20_ConsecutiveInProcessingOrder ==
    (variant = "advanced" /\ faults = 0 /\ floods = 0) =>
        /\ \A i \in DOMAIN published : published[i].args.caption.number = i
        /\ \A F \in DOMAIN ledger :
              /\ ledger[F].sequence_number \in DOMAIN published
              /\ LET p == published[ledger[F].sequence_number]
                 IN  /\ p.channel = ledger[F].channel_username
                     /\ p.size = ledger[F].file_size
        /\ Cardinality(DOMAIN ledger) =
              Len(published) - (IF pc = "sf_insert" THEN 1 ELSE 0)
        /\ cyclesRun = 1 =>
              \A i, j \in DOMAIN published :
                  i < j => ProcessedBefore(published[i], published[j])

\* C20 witness: at the end of a first cycle without failure or rate limit the
\* ledger has exactly two rows, number 1 for the file of the first channel
\* and number 2 for the file of the second channel
C20_Witness ==
    /\ variant = "advanced" /\ faults = 0 /\ floods = 0
    /\ pc = "cycle_done"
    /\ cyclesRun = 1
    /\ Cardinality(DOMAIN ledger) = 2
    /\ \E F, G \in DOMAIN ledger :
          /\ ledger[F].channel_username = SOURCE_CHANNELS[1]
          /\ ledger[G].channel_username = SOURCE_CHANNELS[2]
          /\ ledger[F].sequence_number = 1
          /\ ledger[G].sequence_number = ledger[F].sequence_number + 1

\* a step of the running process (not a kill and restart)
Runs == pc' # "start"

\* the stop signal has arrived while start() is in its wait loop
StoppedInWait == pc \in {"wait", "wait_sleep"} /\ ~is_running

\* C21: a stop signal that arrives during the wait between cycles ends the
\* wait within one second: the sleep in progress runs to its end (one more
\* second at most), the next test of the wait loop leaves it without another
\* sleep, the loop test then goes to cleanup() without starting a cycle, and
\* the process stops.
C21_StopEndsWaitWithinOneSecond ==
    /\ [][(pc = "wait_sleep" /\ ~is_running /\ Runs) =>
              pc' = "wait" /\ clock' = clock + 1]_vars
    /\ [][(pc = "wait" /\ ~is_running /\ Runs) =>
              pc' = "loop" /\ clock' = clock]_vars
    /\ [][(pc = "loop" /\ ~is_running /\ Runs) =>
              pc' = "cleanup" /\ UNCHANGED <<clock, cyclesRun, cycle_count>>]_vars
    /\ (StoppedInWait ~> pc \in {"stopped", "start"})

\* C21 witness: the signal arrived during a one-second sleep of the wait
C21_Witness == pc = "wait_sleep" /\ ~is_running

\* cleanup() ran without an error of close() or disconnect()
CleanRelease == \A f \in failures : f.at \notin {"cleanup", "cleanup_client"}

\* C22: a stop request that arrives while a file is being relayed does not
\* interrupt the relay: its steps go on to the end of the relay and never
\* leave for the loop test, the wait or cleanup(); after the request no cycle
\* is started; the process then stops, and when it has stopped the database
\* connection is closed and the client disconnected.
C22_StopLetsRelayFinish ==
    /\ [][(Sending /\ ~is_running /\ Runs) =>
              pc' \notin {"loop", "wait", "wait_sleep", "cleanup", "stopped"}]_vars
    /\ [][(~is_running /\ Runs) => UNCHANGED <<cyclesRun, cycle_count>>]_vars
    /\ [](pc = "stopped" /\ CleanRelease => ~db_conn /\ ~connected)
    /\ ((Sending /\ ~is_running) ~> ~Sending)
    /\ (~is_running ~> pc \in {"stopped", "start"})

\* C22 witness: a stop was requested and the relay in flight goes on: its
\* publish was accepted and its ledger row is being committed
C22_Witness ==
    /\ variant = "advanced"
    /\ pc = "sf_inscommit"
    /\ ~is_running
    /\ LastAccepted
    /\ faults = 0

\* C23: however start() of main.py or clean_monitor.py ends, cleanup() has
\* attempted to release both the database connection and the client
\* connection: a handle that is still open when the process has stopped is
\* one whose release was attempted and failed, also when the release of the
\* other one failed.
C23_CleanupAttemptsBothReleases ==
    (variant \in {"advanced", "clean"} /\ pc = "stopped") =>
        /\ db_conn => "db" \in released
        /\ connected => "client" \in released

\* the process was never killed and restarted
NeverKilled == \A f \in failures : f.at # "crash"

\* C24: in main.py and user_monitor.py the result of a monitoring cycle is
\* the number of files published to the destination during the cycle: at
\* the end of the first cycle the total of the counts returned by the
\* channels equals the number of publish (or forward) calls the destination
\* accepted.
C24_CycleResultCountsPublished ==
    (variant \in {"advanced", "user"} /\ pc = "cycle_done" /\ cyclesRun = 1
        /\ NeverKilled) =>
            total_sent = Len(published)

\* check_channel goes from the message it has processed to the next one
NextCandidate == msgs # <<>> /\ msgs' = Tail(msgs) /\ msgs' # <<>>

\* C25: in main.py and clean_monitor.py, whenever check_channel goes on to
\* the next message of the channel, the delay between messages has elapsed
\* since the previous message was processed, whether that message was
\* relayed, filtered out or skipped.
C25_DelayAfterEveryCandidate ==
    [][(variant \in {"advanced", "clean"} /\ NextCandidate) =>
            clock' = clock + MessageDelay]_vars

\* process_message is not running: check_channel is between two messages, or
\* has returned
BetweenMessages == pc \in {"message", "msg_delay", "channel_done", "cycle_done"}

\* C26: in main.py and clean_monitor.py no temporary download file outlives
\* the process_message call that created it; stated for the runs in which
\* nothing fails.
C26_NoTempFileOutlivesRelay ==
    (variant \in {"advanced", "clean"} /\ BetweenMessages /\ faults = 0) =>
        temp = 0

\* C27: with a required setting missing, validate_config raises and start()
\* goes straight to cleanup(): the database is never opened or written, the
\* client never connects, and no monitoring cycle runs.
C27_MissingSettingIsFatal ==
    validate_config(settings) # {} =>
        /\ pc \in {"start", "cleanup", "cleanup_client", "stopped"}
        /\ ~db_conn
        /\ ~connected
        /\ cyclesRun = 0
        /\ disk = EmptyDisk
        /\ published = <<>>

\* C27 witness: start() has ended for a configuration without phone number
C27_Witness ==
    /\ pc = "stopped"
    /\ validate_config(settings) = {"phone"}

\* get_current_sequence_number returns: the history gets its answer
PeekReturns == Len(ops') = Len(ops) + 1 /\ ops'[Len(ops')].op = "peek"

\* C28: get_current_sequence_number is a read-only peek: it answers the
\* value stored for the counter, 0 when the counter has no row, and changes
\* neither the counters nor the ledger, in the connection or in the file;
\* the next get_next_sequence_number for the same name returns the peeked
\* value plus one.
C28_PeekIsReadOnly ==
    /\ [][PeekReturns =>
            LET peek == ops'[Len(ops')]
            IN  /\ peek.value = IF peek.name \in DOMAIN counter
                                THEN counter[peek.name] ELSE 0
                /\ UNCHANGED <<counter, ledger, disk, returned>>]_vars
    /\ [](\A i \in DOMAIN ops :
            Len(returned[ops[i].name]) > ops[i].before =>
                returned[ops[i].name][ops[i].before + 1] = ops[i].value + 1)

\* C28 witness: a counter with stored value 1 was peeked, and
\* get_next_sequence_number was called for it afterwards
C28_Witness ==
    \E j \in DOMAIN ops :
        /\ ops[j].name = "file_counter"
        /\ ops[j].value = 1
        /\ Len(returned["file_counter"]) > ops[j].before

\* two characters are the same letter, whatever their case
SameLetter(a, b) == \E i \in 1..26 : {a, b} \subseteq {Upper[i], Lower[i]}

\* name ends with ext, compared without regard to case
SuffixIgnoringCase(name, ext) ==
    /\ Len(name) >= Len(ext)
    /\ \A k \in 1..Len(ext) :
          LET c == name[Len(name) - Len(ext) + k]
          IN  c = ext[k] \/ SameLetter(c, ext[k])

\* a filename is that of a matching document
MatchingName(file_name) ==
    file_name # NoName /\ SuffixIgnoringCase(file_name, TARGET_EXTENSION)

\* the message being processed carries a matching document
MatchingMessage ==
    loc.message.media = "document" /\ MatchingName(loc.message.doc.file_name)

\* the message of the feed an accepted publish was made for
PublishedMessage(p) == feed[p.channel][MessageIndex(p.channel, p.message)]

\* C29: a document matches if and only if its filename ends with the target
\* extension, compared without regard to case. In main.py and
\* clean_monitor.py a message goes past the filter exactly when its document
\* matches; in every monitor the download, the publish and the ledger write
\* happen only for a matching document, every accepted publish carried a
\* matching document and every ledger row names one.
C29_ExtensionMatchIgnoresCase ==
    /\ (variant \in {"advanced", "clean"} /\ loc.message.media = "document") =>
          IF MatchingMessage
          THEN pc \in Pipeline \/ \E i \in DOMAIN ops : ops[i] = "ledger_lookup"
          ELSE /\ pc \notin Pipeline
               /\ result = "false"
               /\ \A i \in DOMAIN ops : ops[i] \notin Effects
    /\ (\E i \in DOMAIN ops : ops[i] \in Effects \ {"ledger_lookup"}) => MatchingMessage
    /\ \A i \in DOMAIN published :
          /\ PublishedMessage(published[i]).media = "document"
          /\ MatchingName(PublishedMessage(published[i]).doc.file_name)
    /\ \A F \in DOMAIN ledger :
          MatchingName(IF variant = "advanced" THEN ledger[F].original_filename
                       ELSE ledger[F].file_name)

\* C29 witness: a document whose extension is written in capitals has been
\* published, and one with another extension has been filtered out
C29_Witness ==
    /\ variant = "advanced"
    /\ \E i \in DOMAIN published :
          PublishedMessage(published[i]).doc.file_name = D2.file_name
    /\ loc.message.doc.file_name = D4.file_name
    /\ result = "false"

----------------------------------------------------------------------------
(* FileNamingSystem.generate_new_filename on its own, over bounded inputs. *)

MaxNameLen == 4

NameChars == {"a", "B", ".", " ", "?"}

\* n times the character c
Repeat(c, n) == [i \in 1..n |-> c]

\* names longer than the two length limits of file_namer.py
LongNames ==
    { Repeat("a", ShortNameLen + 5) \o <<".","N","p">>,
      Repeat("a", MaxBaseLen + 5),
      Repeat("a", ShortNameLen + 2) \o <<".","b",".">>,
      <<" ">> \o Repeat("a", ShortNameLen - 1) \o <<" "," ","B",".","a">> }

\* names with a tab, a line break, every invalid character, and a space where
\* the length limit of clean_filename cuts
EdgeNames ==
    { <<"a","\t"," ","\n","b",".","x">>,
      <<"<",">",":","\"","/","\\","|","?","*","a",".","t","x","t">>,
      Repeat("a", MaxBaseLen - 1) \o <<" ","b",".","x">>,
      Repeat("a", MaxBaseLen) \o <<"?","b">> }

OriginalNames ==
    UNION {[1..k -> NameChars] : k \in 0..MaxNameLen} \cup LongNames \cup EdgeNames

SequenceNumbers == {1, 42, 12345}

\* a FileNamingSystem of either sequence display and the arguments of one call
InitNamer ==
    /\ variant = "advanced"
    /\ feed = [chA |-> <<>>, chB |-> <<>>]
    /\ settings = AllSet
    /\ \E show_sequence \in BOOLEAN : namer = FileNamingSystem(None, {show_sequence})
    /\ db_conn = FALSE
    /\ connected = FALSE
    /\ released = {}
    /\ pc = "namer"
    /\ is_running = TRUE
    /\ cycle_count = 0
    /\ chIdx = 1
    /\ msgs = <<>>
    /\ sent_count = 0
    /\ total_sent = 0
    /\ \E original_filename \in OriginalNames, sequence_number \in SequenceNumbers :
          loc = [NoLoc EXCEPT !.message = Doc(1, [NoDoc EXCEPT !.file_name = original_filename]),
                              !.sequence_number = sequence_number]
    /\ ledger = EmptyTable
    /\ counter = EmptyTable
    /\ disk = EmptyDisk
    /\ temp = 0
    /\ tick = 0
    /\ clock = 0
    /\ ticks = 0
    /\ ops = <<>>
    /\ published = <<>>
    /\ attempts = <<>>
    /\ waits = <<>>
    /\ result = "none"
    /\ cyclesRun = 0
    /\ floods = 0
    /\ faults = 0
    /\ failures = {}
    /\ calls = [c \in Callers |-> IdleCall]
    /\ returned = [n \in CounterNames |-> <<>>]

\* new_filename = self.namer.generate_new_filename(original_name, sequence_number)
GenerateName ==
    /\ pc = "namer"
    /\ loc' = [loc EXCEPT !.new_filename =
                  generate_new_filename(namer, loc.message.doc.file_name,
                                        loc.sequence_number)]
    /\ pc' = "named"
    /\ UNCHANGED <<cfgVars, resVars, loopVars, dbVars, temp, timeVars, histVars,
                   budgetVars, apiVars>>

\* self.namer.clean_filename(original_name), called on its own
CleanName ==
    /\ pc = "namer"
    /\ loc' = [loc EXCEPT !.cleaned_name = clean_filename(loc.message.doc.file_name)]
    /\ pc' = "cleaned"
    /\ UNCHANGED <<cfgVars, resVars, loopVars, dbVars, temp, timeVars, histVars,
                   budgetVars, apiVars>>

NextNamer ==
    \/ GenerateName
    \/ CleanName

SpecNamer == InitNamer /\ [][NextNamer]_vars

\* the names and numbers of a series of calls on one FileNamingSystem
CallNames == {D1.file_name, D2.file_name, <<".","B",".">>, <<" ","a"," "," ","b">>,
              <<"5","_","d","s","t">>}

CallNumbers == {1, 42, 2345, 12345}

\* one FileNamingSystem of either sequence display, no call made yet
InitCalls ==
    /\ variant = "advanced"
    /\ feed = [chA |-> <<>>, chB |-> <<>>]
    /\ settings = AllSet
    /\ \E show_sequence \in BOOLEAN : namer = FileNamingSystem(None, {show_sequence})
    /\ db_conn = FALSE
    /\ connected = FALSE
    /\ released = {}
    /\ pc = "calls"
    /\ is_running = TRUE
    /\ cycle_count = 0
    /\ chIdx = 1
    /\ msgs = <<>>
    /\ sent_count = 0
    /\ total_sent = 0
    /\ loc = NoLoc
    /\ ledger = EmptyTable
    /\ counter = EmptyTable
    /\ disk = EmptyDisk
    /\ temp = 0
    /\ tick = 0
    /\ clock = 0
    /\ ticks = 0
    /\ ops = <<>>
    /\ published = <<>>
    /\ attempts = <<>>
    /\ waits = <<>>
    /\ result = "none"
    /\ cyclesRun = 0
    /\ floods = 0
    /\ faults = 0
    /\ failures = {}
    /\ calls = [c \in Callers |-> IdleCall]
    /\ returned = [n \in CounterNames |-> <<>>]

\* a call that leaves a trace in the object: the sequence display is switched
\* after it; C32 must not hold of it
NamerGenerate_KeepsState(original_filename, sequence_number) ==
    /\ pc = "calls"
    /\ Len(ops) < MaxCalls
    /\ ops' = Append(ops, [call            |-> "generate_new_filename",
                           self            |-> namer,
                           original        |-> original_filename,
                           sequence_number |-> sequence_number,
                           value           |-> generate_new_filename(namer, original_filename,
                                                                     sequence_number)])
    /\ namer' = [namer EXCEPT !.show_sequence = ~namer.show_sequence]
    /\ UNCHANGED <<variant, feed, settings, resVars, pc, loopVars, loc, dbVars, temp,
                   timeVars, published, attempts, waits, result, budgetVars, apiVars>>

\* self.namer.generate_new_filename(original_filename, sequence_number): it
\* reads self.prefix, self.show_sequence and self.destination_id, writes nothing
NamerGenerate(original_filename, sequence_number) ==
    /\ pc = "calls"
    /\ Len(ops) < MaxCalls
    /\ ops' = Append(ops, [call            |-> "generate_new_filename",
                           self            |-> namer,
                           original        |-> original_filename,
                           sequence_number |-> sequence_number,
                           value           |-> generate_new_filename(namer, original_filename,
                                                                     sequence_number)])
    /\ namer' = namer
    /\ UNCHANGED <<variant, feed, settings, resVars, pc, loopVars, loc, dbVars, temp,
                   timeVars, published, attempts, waits, result, budgetVars, apiVars>>

\* self.namer.clean_filename(original_filename)
NamerClean(original_filename) ==
    /\ pc = "calls"
    /\ Len(ops) < MaxCalls
    /\ ops' = Append(ops, [call            |-> "clean_filename",
                           self            |-> namer,
                           original        |-> original_filename,
                           sequence_number |-> 0,
                           value           |-> clean_filename(original_filename)])
    /\ namer' = namer
    /\ UNCHANGED <<variant, feed, settings, resVars, pc, loopVars, loc, dbVars, temp,
                   timeVars, published, attempts, waits, result, budgetVars, apiVars>>

NextCalls ==
    \/ \E o \in CallNames, n \in CallNumbers : NamerGenerate(o, n)
    \/ \E o \in CallNames : NamerClean(o)

SpecCalls == InitCalls /\ [][NextCalls]_vars

\* the original filename a name was generated for
Original == loc.message.doc.file_name

\* the original has an extension: something follows its last "."
HasExtension(f) == \E i \in 1..(Len(f) - 1) : f[i] = "." /\ \A j \in (i+1)..Len(f) : f[j] # "."

\* the position of the "." that separates the base from the extension, an
\* ending "." included; Len(f) + 1 when f has no "."
Separator(f) ==
    IF \E i \in 1..Len(f) : f[i] = "."
    THEN CHOOSE i \in 1..Len(f) : f[i] = "." /\ \A j \in (i+1)..Len(f) : f[j] # "."
    ELSE Len(f) + 1

OriginalExtension(f) == SubSeq(f, Separator(f) + 1, Len(f))

\* the base without the invalid characters, whitespace runs collapsed, stripped
SanitizedBase(f) == Strip(Collapse(Filter(SubSeq(f, 1, Separator(f) - 1), InvalidChars)))

\* n written with at least four digits
FourDigits(n) ==
    IF n >= 1000 THEN Digits(n)
    ELSE <<DigitChars[(n \div 1000) + 1], DigitChars[((n \div 100) % 10) + 1],
           DigitChars[((n \div 10) % 10) + 1], DigitChars[(n % 10) + 1]>>

\* the name the layout rule gives
LayoutName(self, f, n) ==
    LET front == IF self.show_sequence
                 THEN self.prefix \o FourDigits(n) \o <<"_">> \o self.destination_id
                 ELSE self.prefix \o self.destination_id
        base  == SanitizedBase(f)
        short == IF Len(base) > 20 THEN SubSeq(base, 1, 20) ELSE base
        named == IF base # <<>> THEN front \o <<"_">> \o short ELSE front
    IN  IF HasExtension(f) THEN named \o <<".">> \o OriginalExtension(f) ELSE named

\* C30: for every original filename and sequence number generate_new_filename
\* returns the prefix, the sequence number padded to four digits, "_" and the
\* destination id (the prefix and the destination id when the sequence display
\* is off), then "_" and the first 20 characters of the sanitized base when
\* that base is not empty, then "." and the original extension, its case kept,
\* when the original had one.
C30_NewFilenameLayout ==
    pc = "named" => loc.new_filename = LayoutName(namer, Original, loc.sequence_number)

\* the layout rule is what generate_new_filename returns for every original
\* that does not end with "."
LayoutUnlessEndingDot ==
    (pc = "named" /\ (Original = <<>> \/ Original[Len(Original)] # ".")) =>
        loc.new_filename = LayoutName(namer, Original, loc.sequence_number)

\* the base of the name clean_filename returned: what precedes the "." and
\* the extension it put back
CleanedBase ==
    IF HasExtension(Original)
    THEN SubSeq(loc.cleaned_name, 1,
                Len(loc.cleaned_name) - Len(OriginalExtension(Original)) - 1)
    ELSE loc.cleaned_name

Whitespace == {" ", "\t", "\n"}

\* no invalid character, whitespace only as single spaces, none at either end
WellSanitized(base) ==
    /\ \A i \in DOMAIN base : base[i] \notin {"<", ">", ":", "\"", "/", "\\", "|", "?", "*"}
    /\ \A i \in DOMAIN base : base[i] \in Whitespace => base[i] = " "
    /\ \A i \in 1..(Len(base) - 1) : ~(base[i] \in Whitespace /\ base[i+1] \in Whitespace)
    /\ base # <<>> => base[1] \notin Whitespace /\ base[Len(base)] \notin Whitespace

\* the first 50 characters of base, all of it when it is not longer
FirstFifty(base) == IF Len(base) > 50 THEN SubSeq(base, 1, 50) ELSE base

SanitizedBeforeCut ==
    pc = "cleaned" =>
        /\ WellSanitized(SanitizedBase(Original))
        /\ CleanedBase = FirstFifty(SanitizedBase(Original))
        /\ Len(SanitizedBase(Original)) <= 50 => WellSanitized(CleanedBase)
        /\ HasExtension(Original) =>
              loc.cleaned_name = CleanedBase \o <<".">> \o OriginalExtension(Original)

\* two logged calls of generate_new_filename with the same name and number
SameArguments(i, j) ==
    /\ ops[i].call = "generate_new_filename"
    /\ ops[j].call = "generate_new_filename"
    /\ ops[i].original = ops[j].original
    /\ ops[i].sequence_number = ops[j].sequence_number

AdvancedRecords ==
    variant = "advanced" /\ pc = "sf_insert" /\ DOMAIN ledger' # DOMAIN ledger

\* C33: in main.py the fingerprint that process_message looked up before the
\* download is the fingerprint under which send_file_with_new_name stores the
\* row after the publish, for every document, with or without a date (stated
\* for the runs in which nothing has failed).
C33_LookupAndRecordSameFingerprint ==
    [][(AdvancedRecords /\ faults = 0) =>
            DOMAIN ledger' = DOMAIN ledger \cup {loc.file_hash}]_vars

\* the two fingerprints are the same for every document that has a date
SameFingerprintWhenDated ==
    [][(AdvancedRecords /\ loc.message.doc.date # NoDate) =>
            DOMAIN ledger' = DOMAIN ledger \cup {loc.file_hash}]_vars

\* the value of 'file_counter' in a counters table, 0 when it has no such row
FileCounter(ctr) == IF "file_counter" \in DOMAIN ctr THEN ctr["file_counter"] ELSE 0

\* the rows of a table carry distinct sequence numbers, all within 1..top
NumberedWithin(table, top) ==
    /\ \A F, G \in DOMAIN table :
          table[F].sequence_number = table[G].sequence_number => F = G
    /\ \A F \in DOMAIN table :
          table[F].sequence_number >= 1 /\ table[F].sequence_number <= top

\* C34: in every reachable state of main.py no two ledger rows carry the same
\* sequence_number and every row's sequence_number lies between 1 and the
\* value of 'file_counter', both as the connection sees the tables and in the
\* committed database file.
C34_RowNumbersDistinctAndAllocated ==
    variant = "advanced" =>
        /\ NumberedWithin(ledger, FileCounter(counter))
        /\ NumberedWithin(disk.ledger, FileCounter(disk.counter))

\* C34 witness: two committed rows, and a counter that ran ahead of them
\* because a rate-limited relay took a second number
C34_Witness ==
    /\ variant = "advanced"
    /\ Cardinality(DOMAIN disk.ledger) = 2
    /\ FileCounter(disk.counter) = 3
    /\ floods = 1

\* the accepted publish a row stands for: same document, same number, same name
PublishedAs(F, row) ==
    \E i \in DOMAIN published :
        /\ published[i].doc = F[1]
        /\ published[i].args.file_name = row.new_filename
        /\ published[i].args.caption.number = row.sequence_number

\* every row of a table is named after its own number and was published so
RowsAsPublished(table) ==
    \A F \in DOMAIN table :
        /\ table[F].new_filename =
              generate_new_filename(namer, table[F].original_filename,
                                    table[F].sequence_number)
        /\ PublishedAs(F, table[F])

\* C35: every ledger row written by main.py agrees with what was published:
\* its new_filename is generate_new_filename(original_filename,
\* sequence_number) for its own sequence_number, and that filename is the one
\* passed to the publish call that was accepted, the last call of the relay,
\* also after rate-limited retries.
C35_RowMatchesPublishedName ==
    /\ [](variant = "advanced" => RowsAsPublished(ledger) /\ RowsAsPublished(disk.ledger))
    /\ [][AdvancedRecords =>
            \E F \in DOMAIN ledger' \ DOMAIN ledger :
                /\ attempts # <<>>
                /\ attempts[Len(attempts)].outcome = "ok"
                /\ attempts[Len(attempts)].args.file_name = ledger'[F].new_filename
                /\ published[Len(published)].args.file_name = ledger'[F].new_filename]_vars

\* C35 witness: a committed row of a relay whose first publish was rate-limited
C35_Witness ==
    /\ variant = "advanced"
    /\ Len(published) = 1
    /\ \E F \in DOMAIN disk.ledger :
          /\ disk.ledger[F].sequence_number = 2
          /\ disk.ledger[F].original_filename = D2.file_name
          /\ published[1].args.file_name = disk.ledger[F].new_filename
    /\ Len(attempts) = 2
    /\ attempts[1].outcome = "flood"
    /\ attempts[1].args.file_name # attempts[2].args.file_name

\* the positions inside monitoring_cycle
CyclePositions ==
    {"channel", "message", "msg_delay", "channel_done", "cycle_done"} \cup Pipeline

\* main.py takes a step inside a cycle after a stop was requested, and
\* nothing has failed
StoppedInCycle ==
    /\ variant = "advanced"
    /\ ~is_running
    /\ pc \in CyclePositions
    /\ faults' = 0

\* C36: in main.py a stop requested while a cycle is running is acted on only
\* at the end of the cycle. The cycle goes on through every remaining message
\* and channel, taking the delay between messages, the delay between channels
\* and the rate-limit backoff in full; then the loop exits without the wait
\* and without another cycle.
C36_StopActsAtCycleBoundary ==
    /\ [][(StoppedInCycle /\ pc # "cycle_done") => pc' \in CyclePositions]_vars
    /\ [][(StoppedInCycle /\ pc = "channel_done") =>
            IF chIdx < Len(SOURCE_CHANNELS)
            THEN pc' = "channel" /\ chIdx' = chIdx + 1 /\ clock' = clock + 2
            ELSE pc' = "cycle_done"]_vars
    /\ [][(StoppedInCycle /\ pc # "channel" /\ msgs' # msgs) => msgs' = Tail(msgs)]_vars
    /\ [][(StoppedInCycle /\ pc # "channel_done" /\ pc' = "channel_done") =>
            msgs' = <<>>]_vars
    /\ [][(StoppedInCycle /\ pc = "msg_delay") => clock' = clock + 3]_vars
    /\ [][(StoppedInCycle /\ pc = "sf_sleep") =>
            clock' = clock + loc.seconds /\ pc' = "sf_select"]_vars
    /\ [][(StoppedInCycle /\ pc = "cycle_done") => pc' = "loop"]_vars
    /\ [][(variant = "advanced" /\ ~is_running /\ pc = "loop" /\ Runs) =>
            pc' = "cleanup" /\ UNCHANGED <<clock, cycle_count, cyclesRun>>]_vars
    /\ (variant = "advanced" /\ ~is_running /\ pc \in CyclePositions)
          ~> (pc \in {"cleanup", "start"})

\* C36 witness: the stop has arrived while the first channel still has a
\* message to process and the delay between messages is running
C36_Witness ==
    /\ variant = "advanced"
    /\ ~is_running
    /\ pc = "msg_delay"
    /\ chIdx = 1
    /\ Len(msgs) = 2
    /\ faults = 0

\* in main.py the transport raises a rate-limit signal at this position
FloodAt(position) == variant = "advanced" /\ pc = position /\ floods' = floods + 1

\* neither a backoff sleep, nor a publish, nor a change of ledger or counter
NothingDone == UNCHANGED <<clock, waits, published, attempts, ledger, counter, disk>>

\* the publish calls of the current relay that were rate-limited
LimitedAttempts == {i \in DOMAIN attempts : attempts[i].outcome = "flood"}

\* C37: in main.py a rate-limit signal raised by the channel scan or by the
\* download is not waited on: the channel, respectively the file, is skipped
\* with no backoff sleep, no publish and no change of the ledger or the
\* sequence counter. Only a rate-limit signal of the publish step is followed
\* by the sleep of e.seconds and the retry.
C37_OnlyPublishFloodIsWaitedOn ==
    /\ [][FloodAt("channel") =>
            /\ pc' = "channel_done"
            /\ msgs' = <<>>
            /\ sent_count' = 0
            /\ NothingDone]_vars
    /\ [][FloodAt("pm_download") =>
            /\ result' = "false"
            /\ msgs' = Tail(msgs)
            /\ pc' = IF msgs' = <<>> THEN "channel_done" ELSE "message"
            /\ sent_count' = sent_count
            /\ NothingDone]_vars
    /\ [][FloodAt("sf_publish") =>
            /\ pc' = "sf_sleep"
            /\ UNCHANGED <<published, ledger, disk>>]_vars
    /\ [][(variant = "advanced" /\ pc = "sf_sleep" /\ pc' # pc /\ Runs) =>
            /\ clock' = clock + loc.seconds
            /\ waits' = Append(waits, loc.seconds)
            /\ pc' = "sf_select"]_vars
    /\ [](variant = "advanced" => Len(waits) <= Cardinality(LimitedAttempts))

\* C37 witness: the scan of the first channel, which holds messages, was
\* rate-limited in the first cycle and the channel is left without any wait
C37_Witness ==
    /\ variant = "advanced"
    /\ pc = "channel_done"
    /\ cyclesRun = 1
    /\ chIdx = 1
    /\ feed[SOURCE_CHANNELS[1]] # <<>>
    /\ msgs = <<>>
    /\ result = "none"
    /\ floods = 1
    /\ faults = 0
    /\ waits = <<>>
    /\ clock = 0

\* the matching files among the newest MESSAGES_TO_CHECK messages of the
\* source channels
NewestMatching ==
    LET Newest(ch) == {feed[ch][i] : i \in 1..(IF Len(feed[ch]) < MESSAGES_TO_CHECK
                                                THEN Len(feed[ch])
                                                ELSE MESSAGES_TO_CHECK)}
        InScan     == UNION {Newest(SOURCE_CHANNELS[c]) : c \in DOMAIN SOURCE_CHANNELS}
    IN  {m.doc : m \in {n \in InScan : n.media = "document" /\
                                       MatchingName(n.doc.file_name)}}

\* the destination accepted the file and a committed ledger row stands for it
PublishedAndRecorded(d) ==
    /\ \E i \in DOMAIN published : published[i].doc = d.id /\ published[i].size = d.size
    /\ \E F \in DOMAIN disk.ledger : F[1] = d.id /\ F[2] = d.size

\* the calls of the transport inside a cycle of main.py
TransportCalls == {"channel", "pm_download", "sf_publish"}

\* the run is outside the claim's fairness: the configuration is invalid, a
\* stop was requested, something other than a transport call of the cycle
\* failed, or the transport was in trouble in as many cycles as the model runs
OutsideFairness ==
    \/ validate_config(settings) # {}
    \/ ~is_running /\ pc \notin {"cleanup", "cleanup_client", "stopped"}
    \/ \E f \in failures : f.at \notin TransportCalls
    \/ floods + faults >= MaxCycles

\* C38: in main.py, when the loop is never stopped, the transport's failures
\* and rate limits come to an end and the storage does not fail, every
\* matching file among the newest MESSAGES_TO_CHECK messages of a source
\* channel is eventually published to the destination and recorded in the
\* ledger.
C38_MatchingFileEventuallyRelayed ==
    variant = "advanced" =>
        <>(OutsideFairness \/ \A d \in NewestMatching : PublishedAndRecorded(d))

\* C38 witness: the scan of a channel failed in the first cycle and the
\* second cycle has relayed what was left; every matching file is published
\* and recorded
C38_Witness ==
    /\ variant = "advanced"
    /\ ~OutsideFairness
    /\ cyclesRun = 2
    /\ \E f \in failures : f.at = "channel" /\ f.cycle = 1
    /\ Cardinality(NewestMatching) = 2
    /\ \A d \in NewestMatching : PublishedAndRecorded(d)

\* two logged calls of generate_new_filename on the same configuration, the
\* sequence display on, with different sequence numbers
DifferentNumbers(i, j) ==
    /\ ops[i].call = "generate_new_filename"
    /\ ops[j].call = "generate_new_filename"
    /\ ops[i].self = ops[j].self
    /\ ops[i].self.show_sequence
    /\ ops[i].sequence_number # ops[j].sequence_number

\* C39: with the sequence display on and a fixed configuration,
\* generate_new_filename gives different filenames for different sequence
\* numbers, whatever the original names are.
C39_DistinctNumbersDistinctNames ==
    pc = "calls" =>
        \A i, j \in DOMAIN ops : DifferentNumbers(i, j) => ops[i].value # ops[j].value

\* C39 witness: two names for the numbers 2345 and 12345, which end with the
\* same four digits, and for originals chosen to look alike
C39_Witness ==
    /\ pc = "calls"
    /\ Len(ops) = 2
    /\ DifferentNumbers(1, 2)
    /\ ops[1].sequence_number = 12345
    /\ ops[1].original = D1.file_name
    /\ ops[2].sequence_number = 2345
    /\ ops[2].original = <<"5","_","d","s","t">>
    /\ ops[1].value # ops[2].value

\* in main.py no two ledger rows carry the same new_filename
RowsNamedApart ==
    variant = "advanced" =>
        \A F, G \in DOMAIN ledger : ledger[F].new_filename = ledger[G].new_filename => F = G

\* main.py could not resolve the destination channel at startup, and nothing
\* else failed before
DestinationUnresolved ==
    /\ variant = "advanced"
    /\ \E f \in failures : f.at = "access"
    /\ \A f \in failures : f.at \in {"access", "cleanup", "cleanup_client"}

\* C40: when main.py cannot resolve the destination channel at startup,
\* start() goes to cleanup without running a cycle, without publishing and
\* without changing the ledger or the sequence counter, and cleanup attempts
\* both releases: the ledger handle and the transport connection are closed
\* unless the release itself fails.
C40_UnresolvedDestinationEndsStart ==
    DestinationUnresolved =>
        /\ pc \in {"cleanup", "cleanup_client", "stopped"}
        /\ cyclesRun = 0
        /\ cycle_count = 0
        /\ published = <<>>
        /\ attempts = <<>>
        /\ ledger = EmptyTable
        /\ disk.ledger = EmptyTable
        /\ FileCounter(counter) = 0
        /\ FileCounter(disk.counter) = 0
        /\ pc = "stopped" =>
              /\ released = {"db", "client"}
              /\ CleanRelease => ~db_conn /\ ~connected

\* C40 witness: start() has returned after the failed destination check, the
\* database is closed and the client disconnected
C40_Witness ==
    /\ DestinationUnresolved
    /\ pc = "stopped"
    /\ released = {"db", "client"}
    /\ ~db_conn
    /\ ~connected
    /\ disk.counter # EmptyTable

=============================================================================
